---- MODULE Spec2Model ----
(***************************************************************************)
(* Forensic-accounting core of joncooper/claude-speriments:                *)
(*   - BeneishMScore            (apps/forensic-accounting/lib)             *)
(*   - ForensicRedFlagAnalyzer  (agents/forensic-accounting/lib)           *)
(*   - ForensicAccountingAnalyzer (forensic-accounting/lib)                *)
(*                                                                         *)
(* Numbers are exact rationals <<n, d>> in lowest terms with d > 0.        *)
(* Python's None is the value None, a key that is not in a dict is the     *)
(* value Absent, and a raised exception is a value with d = 0 that every   *)
(* arithmetic operator propagates.                                         *)
(***************************************************************************)
EXTENDS Integers, Sequences, FiniteSets, TLC

(***************************************************************************)
(* Python values and arithmetic                                            *)
(***************************************************************************)
Abs(x) == IF x < 0 THEN -x ELSE x

RECURSIVE GCD(_, _)
GCD(a, b) == IF b = 0 THEN a ELSE GCD(b, a % b)

Norm(n, d) ==
  LET g == GCD(Abs(n), d) IN <<n \div g, d \div g>>

R(n) == <<n, 1>>
Zero == <<0, 1>>
One == <<1, 1>>

None == <<0, -1>>
Absent == <<0, -2>>
ZeroDivisionError == <<1, 0>>
TypeError == <<2, 0>>

IsNum(v) == v[2] > 0
IsRaise(v) == v[2] = 0

\* the exception a binary arithmetic operator ends in, or Zero when it has none
Operands(a, b) ==
  IF IsRaise(a) THEN a
  ELSE IF IsRaise(b) THEN b
  ELSE IF ~IsNum(a) \/ ~IsNum(b) THEN TypeError
  ELSE Zero

PyAdd(a, b) ==
  IF Operands(a, b) # Zero THEN Operands(a, b)
  ELSE LET g == GCD(a[2], b[2])
       IN Norm(a[1] * (b[2] \div g) + b[1] * (a[2] \div g), (a[2] \div g) * b[2])

PyNeg(a) == IF IsNum(a) THEN <<-a[1], a[2]>> ELSE IF IsRaise(a) THEN a ELSE TypeError

PySub(a, b) == IF Operands(a, b) # Zero THEN Operands(a, b) ELSE PyAdd(a, PyNeg(b))

PyMul(a, b) ==
  IF Operands(a, b) # Zero THEN Operands(a, b)
  ELSE LET x == Norm(a[1], b[2])
           y == Norm(b[1], a[2])
       IN <<x[1] * y[1], x[2] * y[2]>>

PyDiv(a, b) ==
  IF Operands(a, b) # Zero THEN Operands(a, b)
  ELSE IF b[1] = 0 THEN ZeroDivisionError
  ELSE IF b[1] > 0 THEN PyMul(a, <<b[2], b[1]>>)
  ELSE PyMul(a, <<-b[2], -b[1]>>)

\* a == b and a != b never raise: None == 0 is False
PyEq(a, b) == IsNum(a) /\ IsNum(b) /\ a = b
PyNe(a, b) == ~PyEq(a, b)

\* a > b on two numbers
Gt(a, b) ==
  LET g == GCD(a[2], b[2]) IN a[1] * (b[2] \div g) > b[1] * (a[2] \div g)
Lt(a, b) == Gt(b, a)
Ge(a, b) == ~Gt(b, a)
Le(a, b) == ~Gt(a, b)

ExcName(v) == IF v = ZeroDivisionError THEN "ZeroDivisionError" ELSE "TypeError"

\* a comparison or condition is "T", "F" or the exception it raises (None > 0
\* is a TypeError)
Compare(a, b, holds) ==
  IF IsRaise(a) THEN ExcName(a)
  ELSE IF IsRaise(b) THEN ExcName(b)
  ELSE IF ~IsNum(a) \/ ~IsNum(b) THEN "TypeError"
  ELSE IF holds THEN "T" ELSE "F"
PyGt(a, b) == Compare(a, b, Gt(a, b))
PyLt(a, b) == Compare(a, b, Lt(a, b))
PyGe(a, b) == Compare(a, b, Ge(a, b))
\* "T" once v has been computed, the exception when computing it raised
Computed(v) == IF IsRaise(v) THEN ExcName(v) ELSE "T"
\* c1 and c2, c2 evaluated only when c1 is true
PyAnd(c1, c2) == IF c1 = "T" THEN c2 ELSE c1

\* "name = value": value is evaluated once and the body F sees the result
Bind(value, F(_)) == CHOOSE result \in {F(v) : v \in {value}} : TRUE

\* dict.get(key, default)
Get(dict, key, default) == IF dict[key] = Absent THEN default ELSE dict[key]

\* a decimal literal with three places, e.g. Milli(-4840) is -4.84
Milli(k) == Norm(k, 1000)

(***************************************************************************)
(* BeneishMScore                                                           *)
(***************************************************************************)
VarNames == {"DSRI", "GMI", "AQI", "SGI", "DEPI", "SGAI", "TATA", "LVGI"}

\* the table with the sign of the SGAI coefficient lost
COEFFICIENTS_unsigned ==
  [intercept |-> Milli(-4840), DSRI |-> Milli(920), GMI |-> Milli(528),
   AQI |-> Milli(404), SGI |-> Milli(892), DEPI |-> Milli(115),
   SGAI |-> Milli(172), TATA |-> Milli(4679), LVGI |-> Milli(-327)]

COEFFICIENTS ==
  [intercept |-> Milli(-4840), DSRI |-> Milli(920), GMI |-> Milli(528),
   AQI |-> Milli(404), SGI |-> Milli(892), DEPI |-> Milli(115),
   SGAI |-> Milli(-172), TATA |-> Milli(4679), LVGI |-> Milli(-327)]

\* the threshold moved down to the MODERATE boundary
THRESHOLD_8_VAR_moderate == Milli(-2500)

THRESHOLD_8_VAR == Milli(-2220)

calculate_dsri(ar_current, sales_current, ar_prior, sales_prior) ==
  IF PyEq(sales_current, Zero) \/ PyEq(sales_prior, Zero) \/ PyEq(ar_prior, Zero)
  THEN One
  ELSE LET dsr_current == PyDiv(ar_current, sales_current)
           dsr_prior == PyDiv(ar_prior, sales_prior)
       IN IF IsRaise(dsr_current) THEN dsr_current
          ELSE IF PyEq(dsr_prior, Zero) THEN One
          ELSE PyDiv(dsr_current, dsr_prior)

calculate_gmi(gross_margin_prior, gross_margin_current) ==
  IF PyEq(gross_margin_current, Zero) THEN One
  ELSE PyDiv(gross_margin_prior, gross_margin_current)

calculate_aqi(total_assets_current, ppe_current, current_assets_current, total_assets_prior, ppe_prior, current_assets_prior) ==
  IF PyEq(total_assets_current, Zero) \/ PyEq(total_assets_prior, Zero) THEN One
  ELSE LET aqi_current ==
             PySub(One, PyDiv(PyAdd(current_assets_current, ppe_current),
                              total_assets_current))
           aqi_prior ==
             PySub(One, PyDiv(PyAdd(current_assets_prior, ppe_prior),
                              total_assets_prior))
       IN IF IsRaise(aqi_current) THEN aqi_current
          ELSE IF PyEq(aqi_prior, Zero) THEN One
          ELSE PyDiv(aqi_current, aqi_prior)

\* calculate_sgi without its "if sales_prior == 0" guard
calculate_sgi_unguarded(sales_current, sales_prior) ==
  PyDiv(sales_current, sales_prior)

calculate_sgi(sales_current, sales_prior) ==
  IF PyEq(sales_prior, Zero) THEN One ELSE PyDiv(sales_current, sales_prior)

calculate_depi(depreciation_rate_prior, depreciation_rate_current) ==
  IF PyEq(depreciation_rate_current, Zero) THEN One
  ELSE PyDiv(depreciation_rate_prior, depreciation_rate_current)

calculate_sgai(sga_current, sales_current, sga_prior, sales_prior) ==
  IF PyEq(sales_current, Zero) \/ PyEq(sales_prior, Zero) THEN One
  ELSE LET sgai_current == PyDiv(sga_current, sales_current)
           sgai_prior == PyDiv(sga_prior, sales_prior)
       IN IF IsRaise(sgai_current) THEN sgai_current
          ELSE IF PyEq(sgai_prior, Zero) THEN One
          ELSE PyDiv(sgai_current, sgai_prior)

calculate_lvgi(total_debt_current, total_assets_current, total_debt_prior, total_assets_prior) ==
  IF PyEq(total_assets_current, Zero) \/ PyEq(total_assets_prior, Zero) THEN One
  ELSE LET leverage_current == PyDiv(total_debt_current, total_assets_current)
           leverage_prior == PyDiv(total_debt_prior, total_assets_prior)
       IN IF IsRaise(leverage_current) THEN leverage_current
          ELSE IF PyEq(leverage_prior, Zero) THEN One
          ELSE PyDiv(leverage_current, leverage_prior)

calculate_tata(net_income, operating_cash_flow, total_assets) ==
  IF PyEq(total_assets, Zero) THEN Zero
  ELSE PyDiv(PySub(net_income, operating_cash_flow), total_assets)

required_fields ==
  <<"ar_current", "ar_prior", "sales_current", "sales_prior",
    "cogs_current", "cogs_prior", "total_assets_current", "total_assets_prior",
    "ppe_current", "ppe_prior", "current_assets_current", "current_assets_prior",
    "depreciation_current", "depreciation_prior", "sga_current", "sga_prior",
    "total_debt_current", "total_debt_prior", "net_income_current",
    "operating_cf_current">>

Fields == {required_fields[i] : i \in 1..Len(required_fields)}

\* insertion order of the variables dict, the order the score loop visits it in
var_order == <<"DSRI", "GMI", "AQI", "SGI", "DEPI", "SGAI", "TATA", "LVGI">>

NoVariables == [v \in VarNames |-> Absent]

\* the eight "variables[...] = ..." assignments of calculate_m_score
compute_variables(fd) ==
  LET gross_margin_current ==
        IF PyNe(fd["sales_current"], Zero)
        THEN PyDiv(PySub(fd["sales_current"], fd["cogs_current"]), fd["sales_current"])
        ELSE Zero
      gross_margin_prior ==
        IF PyNe(fd["sales_prior"], Zero)
        THEN PyDiv(PySub(fd["sales_prior"], fd["cogs_prior"]), fd["sales_prior"])
        ELSE Zero
      dep_sum_current == PyAdd(fd["depreciation_current"], fd["ppe_current"])
      dep_sum_prior == PyAdd(fd["depreciation_prior"], fd["ppe_prior"])
      depreciation_rate_current ==
        IF IsRaise(dep_sum_current) THEN dep_sum_current
        ELSE IF PyNe(dep_sum_current, Zero)
        THEN PyDiv(fd["depreciation_current"], dep_sum_current)
        ELSE Zero
      depreciation_rate_prior ==
        IF IsRaise(dep_sum_prior) THEN dep_sum_prior
        ELSE IF PyNe(dep_sum_prior, Zero)
        THEN PyDiv(fd["depreciation_prior"], dep_sum_prior)
        ELSE Zero
  IN [DSRI |-> calculate_dsri(fd["ar_current"], fd["sales_current"],
                              fd["ar_prior"], fd["sales_prior"]),
      GMI |-> IF IsRaise(gross_margin_current) THEN gross_margin_current
              ELSE IF IsRaise(gross_margin_prior) THEN gross_margin_prior
              ELSE calculate_gmi(gross_margin_prior, gross_margin_current),
      AQI |-> calculate_aqi(fd["total_assets_current"], fd["ppe_current"],
                            fd["current_assets_current"], fd["total_assets_prior"],
                            fd["ppe_prior"], fd["current_assets_prior"]),
      SGI |-> calculate_sgi(fd["sales_current"], fd["sales_prior"]),
      DEPI |-> IF IsRaise(depreciation_rate_current) THEN depreciation_rate_current
               ELSE IF IsRaise(depreciation_rate_prior) THEN depreciation_rate_prior
               ELSE calculate_depi(depreciation_rate_prior, depreciation_rate_current),
      SGAI |-> calculate_sgai(fd["sga_current"], fd["sales_current"],
                              fd["sga_prior"], fd["sales_prior"]),
      TATA |-> calculate_tata(fd["net_income_current"], fd["operating_cf_current"],
                              fd["total_assets_current"]),
      LVGI |-> calculate_lvgi(fd["total_debt_current"], fd["total_assets_current"],
                              fd["total_debt_prior"], fd["total_assets_prior"])]

\* "for var_name, var_value in variables.items(): m_score += COEFFICIENTS[var_name] * var_value"
RECURSIVE m_score_loop(_, _, _)
m_score_loop(vars, order, m_score) ==
  IF order = <<>> THEN m_score
  ELSE m_score_loop(vars, Tail(order),
                    PyAdd(m_score, PyMul(COEFFICIENTS[Head(order)], vars[Head(order)])))

\* the exception the first raising variable ends the call in, "" when none raises
RECURSIVE first_raise(_, _)
first_raise(vars, order) ==
  IF order = <<>> THEN ""
  ELSE IF vars[Head(order)] = TypeError THEN "TypeError"
  ELSE IF vars[Head(order)] = ZeroDivisionError THEN "ZeroDivisionError"
  ELSE first_raise(vars, Tail(order))

\* calculate_m_score reporting only the first missing field
calculate_m_score_first_missing(fd) ==
  LET missing == SelectSeq(required_fields, LAMBDA field : fd[field] = Absent)
      vars == compute_variables(fd)
  IN IF missing # <<>>
     THEN [exc |-> "ValueError", missing |-> <<Head(missing)>>,
           m_score |-> None, variables |-> NoVariables]
     ELSE IF first_raise(vars, var_order) # ""
     THEN [exc |-> first_raise(vars, var_order), missing |-> <<>>,
           m_score |-> None, variables |-> NoVariables]
     ELSE [exc |-> "", missing |-> <<>>,
           m_score |-> m_score_loop(vars, var_order, COEFFICIENTS["intercept"]),
           variables |-> vars]

\* outcome of calculate_m_score: exc = "" for a return of (m_score, variables)
calculate_m_score(fd) ==
  LET missing == SelectSeq(required_fields, LAMBDA field : fd[field] = Absent)
      vars == compute_variables(fd)
  IN IF missing # <<>>
     THEN [exc |-> "ValueError", missing |-> missing,
           m_score |-> None, variables |-> NoVariables]
     ELSE IF first_raise(vars, var_order) # ""
     THEN [exc |-> first_raise(vars, var_order), missing |-> <<>>,
           m_score |-> None, variables |-> NoVariables]
     ELSE [exc |-> "", missing |-> <<>>,
           m_score |-> m_score_loop(vars, var_order, COEFFICIENTS["intercept"]),
           variables |-> vars]

\* interpret_score with ">=" for ">" at the manipulation threshold
interpret_score_inclusive(m_score) ==
  LET is_manipulator == Ge(m_score, THRESHOLD_8_VAR)
      risk_level ==
        IF Gt(m_score, Milli(-1780)) THEN "VERY HIGH"
        ELSE IF Ge(m_score, Milli(-2220)) THEN "HIGH"
        ELSE IF Gt(m_score, Milli(-2500)) THEN "MODERATE"
        ELSE "LOW"
  IN [score |-> m_score, threshold |-> THRESHOLD_8_VAR,
      is_likely_manipulator |-> is_manipulator, risk_level |-> risk_level]

interpret_score(m_score) ==
  LET is_manipulator == Gt(m_score, THRESHOLD_8_VAR)
      risk_level ==
        IF Gt(m_score, Milli(-1780)) THEN "VERY HIGH"
        ELSE IF Gt(m_score, Milli(-2220)) THEN "HIGH"
        ELSE IF Gt(m_score, Milli(-2500)) THEN "MODERATE"
        ELSE "LOW"
  IN [score |-> m_score, threshold |-> THRESHOLD_8_VAR,
      is_likely_manipulator |-> is_manipulator, risk_level |-> risk_level]

\* the checks with the SGAI block comparing against the SGI threshold
VariableChecks_copied ==
  <<[variable |-> "DSRI", default |-> One, threshold |-> Milli(1031)],
    [variable |-> "GMI", default |-> One, threshold |-> Milli(1014)],
    [variable |-> "AQI", default |-> One, threshold |-> Milli(1039)],
    [variable |-> "SGI", default |-> One, threshold |-> Milli(1134)],
    [variable |-> "DEPI", default |-> One, threshold |-> Milli(1001)],
    [variable |-> "SGAI", default |-> One, threshold |-> Milli(1134)],
    [variable |-> "TATA", default |-> Zero, threshold |-> Milli(18)],
    [variable |-> "LVGI", default |-> One, threshold |-> Milli(1037)]>>

\* the eight "if variables.get(name, default) > threshold" blocks, in source order
VariableChecks ==
  <<[variable |-> "DSRI", default |-> One, threshold |-> Milli(1031)],
    [variable |-> "GMI", default |-> One, threshold |-> Milli(1014)],
    [variable |-> "AQI", default |-> One, threshold |-> Milli(1039)],
    [variable |-> "SGI", default |-> One, threshold |-> Milli(1134)],
    [variable |-> "DEPI", default |-> One, threshold |-> Milli(1001)],
    [variable |-> "SGAI", default |-> One, threshold |-> Milli(1001)],
    [variable |-> "TATA", default |-> Zero, threshold |-> Milli(18)],
    [variable |-> "LVGI", default |-> One, threshold |-> Milli(1037)]>>

RECURSIVE analyze_variables_from(_, _, _)
analyze_variables_from(vars, checks, findings) ==
  IF checks = <<>> THEN findings
  ELSE LET c == Head(checks)
       IN analyze_variables_from(vars, Tail(checks),
            IF Gt(Get(vars, c.variable, c.default), c.threshold)
            THEN Append(findings, [variable |-> c.variable,
                                   value |-> vars[c.variable],
                                   threshold |-> c.threshold])
            ELSE findings)

analyze_variables(vars) == analyze_variables_from(vars, VariableChecks, <<>>)

(***************************************************************************)
(* ForensicRedFlagAnalyzer                                                 *)
(***************************************************************************)
\* The rule engine divides and multiplies in Python floats: the result of every
\* such operation is the nearest float, ties to the even mantissa.  A float
\* here has MantissaBits significant bits where CPython's has 53; on every
\* input of RuleInputs the rules decide as they do with 53 bits.
MantissaBits == 13

RECURSIVE Pow2(_)
Pow2(k) == IF k = 0 THEN 1 ELSE 2 * Pow2(k - 1)

\* a mantissa m has MantissaFloor <= m < MantissaLimit
MantissaLimit == Pow2(MantissaBits)
MantissaFloor == Pow2(MantissaBits - 1)

\* d = odd * 2^k as <<odd, k>>
RECURSIVE StripTwos(_, _)
StripTwos(d, k) == IF d % 2 = 0 THEN StripTwos(d \div 2, k + 1) ELSE <<d, k>>

\* the float nearest to (n / d) * 2^e, for n > 0 and d > 0
RECURSIVE RoundScaled(_, _, _)
RoundScaled(n, d, e) ==
  IF n >= d * MantissaLimit THEN RoundScaled(n, 2 * d, e + 1)
  ELSE IF n < d * MantissaFloor THEN RoundScaled(2 * n, d, e - 1)
  ELSE LET q == n \div d
           r == n % d
           m == IF 2 * r > d \/ (2 * r = d /\ q % 2 = 1) THEN q + 1 ELSE q
       IN IF e >= 0 THEN <<m * Pow2(e), 1>> ELSE Norm(m, Pow2(-e))

\* the float nearest to the number x
FRound(x) ==
  IF ~IsNum(x) \/ x[1] = 0 THEN x
  ELSE LET s == StripTwos(x[2], 0)
           r == RoundScaled(Abs(x[1]), s[1], -s[2])
       IN IF x[1] < 0 THEN PyNeg(r) ELSE r

\* a / b, a * b, a + b and a - b with a float operand or result
FDiv(a, b) == FRound(PyDiv(a, b))
FMul(a, b) == FRound(PyMul(a, b))
FAdd(a, b) == FRound(PyAdd(a, b))
FSub(a, b) == FRound(PySub(a, b))

\* a float literal with three decimal places, e.g. FLit(800) is 0.8
FLit(k) == FRound(Milli(k))

\* floor of the square root of n
RECURSIVE Isqrt(_)
Isqrt(n) ==
  IF n < 2 THEN n
  ELSE LET s == 2 * Isqrt(n \div 4) IN IF (s + 1) * (s + 1) <= n THEN s + 1 ELSE s

\* n * 4^j as <<n * 4^j, j>>, the first with MantissaBits + 1 bits in its root
RECURSIVE ScaleRadicand(_, _)
ScaleRadicand(n, j) ==
  IF n >= MantissaLimit * MantissaLimit THEN <<n, j>> ELSE ScaleRadicand(4 * n, j + 1)

\* x ** 0.5 for a float x >= 0: the float nearest to the square root
FSqrt(x) ==
  IF ~IsNum(x) \/ x[1] = 0 THEN x
  ELSE LET s == StripTwos(x[2], 0)
           even == IF s[2] % 2 = 0 THEN <<x[1], s[2]>> ELSE <<2 * x[1], s[2] + 1>>
           scaled == ScaleRadicand(even[1], 0)
           root == Isqrt(scaled[1])
           sticky == IF root * root = scaled[1] THEN 0 ELSE 1
       IN FRound(Norm(2 * root + sticky, Pow2(1 + scaled[2] + even[2] \div 2)))

\* RedFlagFinding; metrics is the list of (name, value) pairs.  The description
\* is the text written at the place that emits the title, the implications and
\* recommendations are the lists written there.
Finding(category, severity, title, metrics) ==
  [category |-> category, severity |-> severity, title |-> title,
   description |-> <<"description", title>>, metrics |-> metrics,
   implications |-> <<"implications", title>>,
   recommendations |-> <<"recommendations", title>>]

\* what one "if ...: self.findings.append(...)" block does: nothing, one
\* finding, or an exception
Outcome(fires, finding) ==
  IF fires = "T" THEN [exc |-> "", findings |-> <<finding>>]
  ELSE IF fires = "F" THEN [exc |-> "", findings |-> <<>>]
  ELSE [exc |-> fires, findings |-> <<>>]

\* statement r after the statements that gave acc
Then(acc, r) ==
  IF acc.exc # "" THEN acc
  ELSE [exc |-> r.exc, findings |-> acc.findings \o r.findings]

\* ((new - old) / old) * 100 in exact arithmetic
Pct(new, old) == PyMul(PyDiv(PySub(new, old), old), R(100))

\* (difference / old) * 100 in floats
FPct(difference, old) == FMul(FDiv(difference, old), R(100))

\* "Check DSO (Days Sales Outstanding)"
rising_dso(current, prior) ==
  LET revenue_current == Get(current, "Revenues", Zero)
      revenue_prior == Get(prior, "Revenues", Zero)
      ar_current == Get(current, "AccountsReceivable", Zero)
      ar_prior == Get(prior, "AccountsReceivable", Zero)
      dso_current == FMul(FDiv(ar_current, revenue_current), R(365))
      dso_prior == FMul(FDiv(ar_prior, revenue_prior), R(365))
      dso_change == FPct(FSub(dso_current, dso_prior), dso_prior)
      fires == PyAnd(PyGt(revenue_current, Zero), PyAnd(PyGt(revenue_prior, Zero),
               PyAnd(Computed(dso_current), PyAnd(PyGt(dso_prior, Zero),
                     PyGt(dso_change, R(10))))))
  IN Outcome(fires,
       Finding("Revenue Quality", IF Gt(dso_change, R(20)) THEN "High" ELSE "Medium",
               "Increasing Days Sales Outstanding (DSO)",
               <<<<"DSO_Current", dso_current>>, <<"DSO_Prior", dso_prior>>,
                 <<"DSO_Change_%", dso_change>>>>))

\* "Check revenue vs AR growth divergence"
ar_outpacing_revenue(current, prior) ==
  LET revenue_current == Get(current, "Revenues", Zero)
      revenue_prior == Get(prior, "Revenues", Zero)
      ar_current == Get(current, "AccountsReceivable", Zero)
      ar_prior == Get(prior, "AccountsReceivable", Zero)
      revenue_growth == FPct(PySub(revenue_current, revenue_prior), revenue_prior)
      ar_growth == FPct(PySub(ar_current, ar_prior), ar_prior)
      fires == PyAnd(PyGt(revenue_prior, Zero), PyAnd(PyGt(ar_prior, Zero),
               PyAnd(Computed(revenue_growth),
                     PyGt(ar_growth, FAdd(revenue_growth, R(15))))))
  IN Outcome(fires,
       Finding("Revenue Quality", "High",
               "Accounts Receivable Growing Faster Than Revenue",
               <<<<"Revenue_Growth_%", revenue_growth>>, <<"AR_Growth_%", ar_growth>>,
                 <<"Divergence_%", FSub(ar_growth, revenue_growth)>>>>))

analyze_revenue_quality(financial_data, acc) ==
  IF Len(financial_data) < 2 THEN acc
  ELSE Then(Then(acc, rising_dso(financial_data[1], financial_data[2])),
            ar_outpacing_revenue(financial_data[1], financial_data[2]))

\* the rule with a ratio of exactly 0.8 counted as below earnings
cf_below_earnings_inclusive(current) ==
  LET net_income == Get(current, "NetIncome", Zero)
      operating_cf == Get(current, "OperatingCashFlow", Zero)
      cf_to_ni_ratio == FDiv(operating_cf, net_income)
      fires == PyAnd(PyGt(net_income, Zero), Compare(cf_to_ni_ratio, FLit(800), Le(cf_to_ni_ratio, FLit(800))))
  IN Outcome(fires,
       Finding("Earnings Quality",
               IF Lt(cf_to_ni_ratio, FLit(500)) THEN "Critical" ELSE "High",
               "Operating Cash Flow Significantly Below Net Income",
               <<<<"Net_Income", net_income>>, <<"Operating_Cash_Flow", operating_cf>>,
                 <<"CF_to_NI_Ratio", cf_to_ni_ratio>>>>))

\* the rule with every finding of severity High
cf_below_earnings_high(current) ==
  LET net_income == Get(current, "NetIncome", Zero)
      operating_cf == Get(current, "OperatingCashFlow", Zero)
      cf_to_ni_ratio == FDiv(operating_cf, net_income)
      fires == PyAnd(PyGt(net_income, Zero), PyLt(cf_to_ni_ratio, FLit(800)))
  IN Outcome(fires,
       Finding("Earnings Quality", "High",
               "Operating Cash Flow Significantly Below Net Income",
               <<<<"Net_Income", net_income>>, <<"Operating_Cash_Flow", operating_cf>>,
                 <<"CF_to_NI_Ratio", cf_to_ni_ratio>>>>))

\* "Cash Flow to Net Income ratio"
cf_below_earnings(current) ==
  LET net_income == Get(current, "NetIncome", Zero)
      operating_cf == Get(current, "OperatingCashFlow", Zero)
      cf_to_ni_ratio == FDiv(operating_cf, net_income)
      fires == PyAnd(PyGt(net_income, Zero), PyLt(cf_to_ni_ratio, FLit(800)))
  IN Outcome(fires,
       Finding("Earnings Quality",
               IF Lt(cf_to_ni_ratio, FLit(500)) THEN "Critical" ELSE "High",
               "Operating Cash Flow Significantly Below Net Income",
               <<<<"Net_Income", net_income>>, <<"Operating_Cash_Flow", operating_cf>>,
                 <<"CF_to_NI_Ratio", cf_to_ni_ratio>>>>))

\* "Negative operating cash flow"
negative_cf_positive_earnings(current) ==
  LET net_income == Get(current, "NetIncome", Zero)
      operating_cf == Get(current, "OperatingCashFlow", Zero)
      fires == PyAnd(PyLt(operating_cf, Zero), PyGt(net_income, Zero))
  IN Outcome(fires,
       Finding("Earnings Quality", "Critical",
               "Negative Operating Cash Flow Despite Positive Earnings",
               <<<<"Net_Income", net_income>>, <<"Operating_Cash_Flow", operating_cf>>>>))

analyze_cash_flow_quality(financial_data, acc) ==
  Then(Then(acc, cf_below_earnings(financial_data[1])),
       negative_cf_positive_earnings(financial_data[1]))

\* "Current ratio declining significantly"
current_ratio_deterioration(current, prior) ==
  LET current_assets == Get(current, "CurrentAssets", Zero)
      current_liabilities == Get(current, "CurrentLiabilities", Zero)
      current_assets_prior == Get(prior, "CurrentAssets", Zero)
      current_liabilities_prior == Get(prior, "CurrentLiabilities", Zero)
      current_ratio == FDiv(current_assets, current_liabilities)
      current_ratio_prior == FDiv(current_assets_prior, current_liabilities_prior)
      ratio_change == FPct(FSub(current_ratio, current_ratio_prior), current_ratio_prior)
      fires == PyAnd(PyGt(current_liabilities, Zero),
               PyAnd(PyGt(current_liabilities_prior, Zero),
               PyAnd(Computed(current_ratio), PyAnd(PyGt(current_ratio_prior, Zero),
               PyAnd(PyLt(ratio_change, R(-15)), PyLt(current_ratio, FLit(1500)))))))
  IN Outcome(fires,
       Finding("Liquidity", "High", "Deteriorating Current Ratio",
               <<<<"Current_Ratio", current_ratio>>,
                 <<"Prior_Current_Ratio", current_ratio_prior>>,
                 <<"Change_%", ratio_change>>>>))

\* "Inventory growth exceeding sales growth"
inventory_outpacing_sales(current, prior) ==
  LET inventory_current == Get(current, "Inventory", Zero)
      revenue_current == Get(current, "Revenues", Zero)
      inventory_prior == Get(prior, "Inventory", Zero)
      revenue_prior == Get(prior, "Revenues", Zero)
      revenue_growth == FPct(PySub(revenue_current, revenue_prior), revenue_prior)
      inventory_growth == FPct(PySub(inventory_current, inventory_prior), inventory_prior)
      fires == PyAnd(PyGt(revenue_prior, Zero), PyAnd(PyGt(inventory_prior, Zero),
               PyAnd(Computed(revenue_growth),
               PyAnd(PyGt(inventory_growth, FAdd(revenue_growth, R(10))),
                     PyGt(inventory_growth, R(15))))))
  IN Outcome(fires,
       Finding("Asset Quality", "Medium", "Inventory Growing Faster Than Sales",
               <<<<"Inventory_Growth_%", inventory_growth>>,
                 <<"Revenue_Growth_%", revenue_growth>>,
                 <<"Divergence_%", FSub(inventory_growth, revenue_growth)>>>>))

analyze_working_capital(financial_data, acc) ==
  IF Len(financial_data) < 2 THEN acc
  ELSE Then(Then(acc, current_ratio_deterioration(financial_data[1], financial_data[2])),
            inventory_outpacing_sales(financial_data[1], financial_data[2]))

\* financial_data[:n]
Take(seq, n) == SubSeq(seq, 1, IF Len(seq) < n THEN Len(seq) ELSE n)

\* [year.get(key, 0) for year in years]
RECURSIVE Column(_, _)
Column(years, key) ==
  IF years = <<>> THEN <<>>
  ELSE <<Get(Head(years), key, Zero)>> \o Column(Tail(years), key)

\* sum(values)
RECURSIVE PySum(_)
PySum(values) == IF values = <<>> THEN Zero ELSE PyAdd(Head(values), PySum(Tail(values)))

\* sum((x - avg) ** 2 for x in values), added from the left onto total
RECURSIVE SumSquares(_, _, _)
SumSquares(values, avg, total) ==
  IF values = <<>> THEN total
  ELSE SumSquares(Tail(values), avg,
         FAdd(total, FMul(FSub(Head(values), avg), FSub(Head(values), avg))))

\* abs(x)
PyAbs(x) == IF IsNum(x) THEN <<Abs(x[1]), x[2]>> ELSE IF IsRaise(x) THEN x ELSE TypeError

\* (sum((x - avg) ** 2 for x in values) / len(values)) ** 0.5
StdDev(values, avg) == FSqrt(FDiv(SumSquares(values, avg, Zero), R(Len(values))))

\* "Check for earnings volatility or smoothing"
earnings_smoothing(financial_data) ==
  LET net_incomes == Column(Take(financial_data, 5), "NetIncome")
      operating_cfs == Column(Take(financial_data, 5), "OperatingCashFlow")
      ni_values == SelectSeq(net_incomes, LAMBDA ni : PyNe(ni, Zero))
      cf_values == SelectSeq(operating_cfs, LAMBDA cf : PyNe(cf, Zero))
      ni_avg == FDiv(PySum(ni_values), R(Len(ni_values)))
      cf_avg == FDiv(PySum(cf_values), R(Len(cf_values)))
      ni_std == StdDev(ni_values, ni_avg)
      cf_std == StdDev(cf_values, cf_avg)
      ni_cv == FDiv(ni_std, PyAbs(ni_avg))
      cf_cv == FDiv(cf_std, PyAbs(cf_avg))
      enough == Len(net_incomes) >= 3 /\ Len(operating_cfs) >= 3
                /\ Len(ni_values) >= 3 /\ Len(cf_values) >= 3
      fires == IF ~enough THEN "F"
               ELSE PyAnd(Computed(ni_avg), PyAnd(Computed(cf_avg),
                    IF PyNe(ni_avg, Zero) /\ PyNe(cf_avg, Zero)
                    THEN PyAnd(PyGt(cf_cv, FLit(300)),
                               PyLt(ni_cv, FMul(cf_cv, FLit(500))))
                    ELSE "F"))
  IN Outcome(fires,
       Finding("Earnings Quality", "Medium", "Potential Earnings Smoothing",
               <<<<"NI_Coefficient_of_Variation", ni_cv>>,
                 <<"CF_Coefficient_of_Variation", cf_cv>>,
                 <<"Ratio", IF Gt(ni_cv, Zero) THEN FDiv(cf_cv, ni_cv) ELSE Zero>>>>))

analyze_earnings_quality(financial_data, acc) ==
  IF Len(financial_data) < 3 THEN acc
  ELSE Then(acc, earnings_smoothing(financial_data))

\* "Red flag if soft assets increasing as percentage"
rising_soft_assets(current, prior) ==
  LET total_assets_current == Get(current, "Assets", Zero)
      total_assets_prior == Get(prior, "Assets", Zero)
      ppe_current == Get(current, "PropertyPlantEquipment", Zero)
      ppe_prior == Get(prior, "PropertyPlantEquipment", Zero)
      current_assets_current == Get(current, "CurrentAssets", Zero)
      current_assets_prior == Get(prior, "CurrentAssets", Zero)
      soft_assets_current ==
        PySub(PySub(total_assets_current, current_assets_current), ppe_current)
      soft_assets_prior == PySub(PySub(total_assets_prior, current_assets_prior), ppe_prior)
      soft_assets_pct_current ==
        FMul(FDiv(soft_assets_current, total_assets_current), R(100))
      soft_assets_pct_prior == FMul(FDiv(soft_assets_prior, total_assets_prior), R(100))
      pct_change == FSub(soft_assets_pct_current, soft_assets_pct_prior)
      fires == PyAnd(PyGt(total_assets_current, Zero), PyAnd(PyGt(total_assets_prior, Zero),
               PyAnd(PyGt(pct_change, R(5)), PyGt(soft_assets_pct_current, R(20)))))
  IN Outcome(fires,
       Finding("Asset Quality", "Medium",
               "Increasing Proportion of Intangible/Soft Assets",
               <<<<"Soft_Assets_%_Current", soft_assets_pct_current>>,
                 <<"Soft_Assets_%_Prior", soft_assets_pct_prior>>,
                 <<"Change_in_%", pct_change>>>>))

analyze_asset_quality(financial_data, acc) ==
  IF Len(financial_data) < 2 THEN acc
  ELSE Then(acc, rising_soft_assets(financial_data[1], financial_data[2]))

\* "Debt-to-equity ratio increasing significantly"
leverage_spike(current, prior) ==
  LET total_debt_current == Get(current, "Liabilities", Zero)
      total_debt_prior == Get(prior, "Liabilities", Zero)
      equity_current == Get(current, "StockholdersEquity", Zero)
      equity_prior == Get(prior, "StockholdersEquity", Zero)
      de_ratio_current == FDiv(total_debt_current, equity_current)
      de_ratio_prior == FDiv(total_debt_prior, equity_prior)
      de_change == FPct(FSub(de_ratio_current, de_ratio_prior), de_ratio_prior)
      fires == PyAnd(PyGt(equity_current, Zero), PyAnd(PyGt(equity_prior, Zero),
               PyAnd(Computed(de_ratio_current), PyAnd(PyGt(de_ratio_prior, Zero),
               PyAnd(PyGt(de_change, R(20)), PyGt(de_ratio_current, FLit(1500)))))))
  IN Outcome(fires,
       Finding("Financial Risk", "High", "Rapidly Increasing Leverage",
               <<<<"Debt_to_Equity_Current", de_ratio_current>>,
                 <<"Debt_to_Equity_Prior", de_ratio_prior>>,
                 <<"Change_%", de_change>>>>))

analyze_debt_trends(financial_data, acc) ==
  IF Len(financial_data) < 2 THEN acc
  ELSE Then(acc, leverage_spike(financial_data[1], financial_data[2]))

\* "Deteriorating gross margins"
margin_deterioration(current, prior) ==
  LET revenue_current == Get(current, "Revenues", Zero)
      revenue_prior == Get(prior, "Revenues", Zero)
      cogs_current == Get(current, "CostOfRevenue", Zero)
      cogs_prior == Get(prior, "CostOfRevenue", Zero)
      gross_margin_current ==
        FMul(FDiv(PySub(revenue_current, cogs_current), revenue_current), R(100))
      gross_margin_prior ==
        FMul(FDiv(PySub(revenue_prior, cogs_prior), revenue_prior), R(100))
      margin_change == FSub(gross_margin_current, gross_margin_prior)
      fires == PyAnd(PyGt(revenue_current, Zero), PyAnd(PyGt(revenue_prior, Zero),
                     PyLt(margin_change, R(-5))))
  IN Outcome(fires,
       Finding("Profitability", IF Lt(margin_change, R(-10)) THEN "High" ELSE "Medium",
               "Deteriorating Gross Margins",
               <<<<"Gross_Margin_%_Current", gross_margin_current>>,
                 <<"Gross_Margin_%_Prior", gross_margin_prior>>,
                 <<"Change_in_ppts", margin_change>>>>))

analyze_margins(financial_data, acc) ==
  IF Len(financial_data) < 2 THEN acc
  ELSE Then(acc, margin_deterioration(financial_data[1], financial_data[2]))

\* analyze_all without its first statement: the findings of earlier calls stay
reset_findings_kept(self_findings) == self_findings

\* self.findings = [] of analyze_all
reset_findings(self_findings) == <<>>

\* analyze_all that runs the rules on a single period too
analyze_from_one_period(financial_data, start) ==
  IF Len(financial_data) < 1 THEN start
  ELSE analyze_margins(financial_data,
       analyze_debt_trends(financial_data,
       analyze_asset_quality(financial_data,
       analyze_earnings_quality(financial_data,
       analyze_working_capital(financial_data,
       analyze_cash_flow_quality(financial_data,
       analyze_revenue_quality(financial_data, start)))))))

\* analyze_all after its first statement, self.findings being start.findings
analyze_from(financial_data, start) ==
  IF Len(financial_data) < 2 THEN start
  ELSE analyze_margins(financial_data,
       analyze_debt_trends(financial_data,
       analyze_asset_quality(financial_data,
       analyze_earnings_quality(financial_data,
       analyze_working_capital(financial_data,
       analyze_cash_flow_quality(financial_data,
       analyze_revenue_quality(financial_data, start)))))))

\* analyze_all: self.findings as the call leaves it, and the exception the call
\* ends in ("" when it returns self.findings)
analyze_all(financial_data) ==
  analyze_from(financial_data, [exc |-> "", findings |-> reset_findings(<<>>)])

get_severity_counts(findings) ==
  [severity \in {"Critical", "High", "Medium", "Low"} |->
     Cardinality({i \in 1..Len(findings) : findings[i].severity = severity})]

(***************************************************************************)
(* ForensicAccountingAnalyzer._generate_assessment                         *)
(***************************************************************************)
\* an entry of the trends dict that _analyze_trends did not produce
NoMScoreTrend ==
  [present |-> FALSE, direction |-> "", latest |-> None, oldest |-> None, change |-> None,
   is_deteriorating |-> FALSE]
NoRevenueGrowth ==
  [present |-> FALSE, latest_rate |-> None, average_rate |-> None,
   is_accelerating |-> FALSE]
NoProfitMargin ==
  [present |-> FALSE, latest |-> None, average |-> None, is_improving |-> FALSE]
NoCashFlowQuality == [present |-> FALSE, cf_to_ni_ratio |-> None, is_healthy |-> FALSE]

NoTrends ==
  [m_score_trend |-> NoMScoreTrend, revenue_growth |-> NoRevenueGrowth,
   profit_margin |-> NoProfitMargin, cash_flow_quality |-> NoCashFlowQuality]

\* "for rf in red_flags: severity_counts[rf.severity] = ... + 1", then .get(severity, 0)
RECURSIVE count_severity(_, _)
count_severity(red_flags, severity) ==
  IF red_flags = <<>> THEN 0
  ELSE (IF Head(red_flags).severity = severity THEN 1 ELSE 0)
       + count_severity(Tail(red_flags), severity)

\* the factor with a score of exactly -2.22 counted as above the threshold
m_score_factor_inclusive(beneish_results, a) ==
  IF beneish_results = <<>> THEN a
  ELSE LET latest_score == beneish_results[1].m_score
       IN IF Gt(latest_score, Milli(-1780))
          THEN [risk_score |-> a.risk_score + 40,
                factors |-> Append(a.factors, "Very high Beneish M-Score")]
          ELSE IF Ge(latest_score, Milli(-2220))
          THEN [risk_score |-> a.risk_score + 25,
                factors |-> Append(a.factors, "Elevated Beneish M-Score")]
          ELSE IF Gt(latest_score, Milli(-2500))
          THEN [risk_score |-> a.risk_score + 10,
                factors |-> Append(a.factors, "Moderately elevated Beneish M-Score")]
          ELSE a

\* Factor 1: latest Beneish M-Score
m_score_factor(beneish_results, a) ==
  IF beneish_results = <<>> THEN a
  ELSE LET latest_score == beneish_results[1].m_score
       IN IF Gt(latest_score, Milli(-1780))
          THEN [risk_score |-> a.risk_score + 40,
                factors |-> Append(a.factors, "Very high Beneish M-Score")]
          ELSE IF Gt(latest_score, Milli(-2220))
          THEN [risk_score |-> a.risk_score + 25,
                factors |-> Append(a.factors, "Elevated Beneish M-Score")]
          ELSE IF Gt(latest_score, Milli(-2500))
          THEN [risk_score |-> a.risk_score + 10,
                factors |-> Append(a.factors, "Moderately elevated Beneish M-Score")]
          ELSE a

\* Factor 2: M-Score trend
m_score_trend_factor(trends, a) ==
  IF trends.m_score_trend.present /\ trends.m_score_trend.is_deteriorating
  THEN [risk_score |-> a.risk_score + 15,
        factors |-> Append(a.factors, "Beneish M-Score deteriorating")]
  ELSE a

\* Factor 3 with "if high_count > 0" turned into an elif of the critical test
severity_factor_elif(critical_count, high_count, medium_count, a) ==
  LET a1 == IF critical_count > 0
            THEN [risk_score |-> a.risk_score + critical_count * 15,
                  factors |-> Append(a.factors, "critical red flag(s)")]
            ELSE IF high_count > 0
            THEN [risk_score |-> a.risk_score + high_count * 8,
                  factors |-> Append(a.factors, "high severity red flag(s)")]
            ELSE a
  IN IF medium_count > 2
     THEN [risk_score |-> a1.risk_score + 10,
           factors |-> Append(a1.factors, "Multiple medium severity red flags")]
     ELSE a1

\* Factor 3: red flags by severity
severity_factor(critical_count, high_count, medium_count, a) ==
  LET a1 == IF critical_count > 0
            THEN [risk_score |-> a.risk_score + critical_count * 15,
                  factors |-> Append(a.factors, "critical red flag(s)")]
            ELSE a
      a2 == IF high_count > 0
            THEN [risk_score |-> a1.risk_score + high_count * 8,
                  factors |-> Append(a1.factors, "high severity red flag(s)")]
            ELSE a1
  IN IF medium_count > 2
     THEN [risk_score |-> a2.risk_score + 10,
           factors |-> Append(a2.factors, "Multiple medium severity red flags")]
     ELSE a2

\* the factor with a missing cash_flow_quality entry counted as not healthy
cash_flow_factor_default_unhealthy(trends, a) ==
  IF ~trends.cash_flow_quality.present \/ ~trends.cash_flow_quality.is_healthy
  THEN [risk_score |-> a.risk_score + 15,
        factors |-> Append(a.factors, "Poor cash flow quality")]
  ELSE a

\* Factor 4: cash flow quality, "not cf_quality.get('is_healthy', True)"
cash_flow_factor(trends, a) ==
  IF trends.cash_flow_quality.present /\ ~trends.cash_flow_quality.is_healthy
  THEN [risk_score |-> a.risk_score + 15,
        factors |-> Append(a.factors, "Poor cash flow quality")]
  ELSE a

\* Factor 5: margin trends
margin_factor(trends, a) ==
  IF /\ trends.profit_margin.present
     /\ ~trends.profit_margin.is_improving
     /\ Lt(trends.profit_margin.latest, R(5))
  THEN [risk_score |-> a.risk_score + 10,
        factors |-> Append(a.factors, "Deteriorating or low profit margins")]
  ELSE a

\* the risk-level chain with ">" for ">="
risk_level_exclusive(risk_score) ==
  IF risk_score > 60 THEN "VERY HIGH"
  ELSE IF risk_score > 40 THEN "HIGH"
  ELSE IF risk_score > 20 THEN "MODERATE"
  ELSE "LOW"

\* "Determine overall risk level"
risk_level_of(risk_score) ==
  IF risk_score >= 60 THEN "VERY HIGH"
  ELSE IF risk_score >= 40 THEN "HIGH"
  ELSE IF risk_score >= 20 THEN "MODERATE"
  ELSE "LOW"

_generate_assessment(beneish_results, red_flags, trends) ==
  LET critical_count == count_severity(red_flags, "Critical")
      high_count == count_severity(red_flags, "High")
      medium_count == count_severity(red_flags, "Medium")
      a0 == [risk_score |-> 0, factors |-> <<>>]
      a1 == m_score_factor(beneish_results, a0)
      a2 == m_score_trend_factor(trends, a1)
      a3 == severity_factor(critical_count, high_count, medium_count, a2)
      a4 == cash_flow_factor(trends, a3)
      a5 == margin_factor(trends, a4)
  IN [risk_level |-> risk_level_of(a5.risk_score),
      risk_score |-> a5.risk_score,
      risk_factors |-> a5.factors,
      total_red_flags |-> Len(red_flags),
      critical_red_flags |-> critical_count,
      high_red_flags |-> high_count,
      medium_red_flags |-> medium_count]

(***************************************************************************)
(* ForensicAccountingAnalyzer: Beneish loop, trends, result                *)
(***************************************************************************)
PyMax(a, b) == IF Gt(b, a) THEN b ELSE a

\* the SG&A estimate, or the exception the estimate raises
_estimate_sga(year_data) ==
  LET revenues == Get(year_data, "Revenues", Zero)
      cogs == Get(year_data, "CostOfRevenue", Zero)
      operating_income == Get(year_data, "OperatingIncome", Zero)
      guard == PyAnd(PyGt(revenues, Zero), PyGe(cogs, Zero))
      sga == PySub(PySub(revenues, cogs), operating_income)
  IN IF guard = "T" THEN (IF IsRaise(sga) THEN sga ELSE PyMax(sga, Zero))
     ELSE IF guard = "F" THEN PyMul(revenues, Norm(20, 100))
     ELSE TypeError

\* "beneish_data = {...}" for one year pair
beneish_data_of(current_year, prior_year) ==
  [ar_current |-> Get(current_year, "AccountsReceivable", Zero),
   ar_prior |-> Get(prior_year, "AccountsReceivable", Zero),
   sales_current |-> Get(current_year, "Revenues", Zero),
   sales_prior |-> Get(prior_year, "Revenues", Zero),
   cogs_current |-> Get(current_year, "CostOfRevenue", Zero),
   cogs_prior |-> Get(prior_year, "CostOfRevenue", Zero),
   total_assets_current |-> Get(current_year, "Assets", Zero),
   total_assets_prior |-> Get(prior_year, "Assets", Zero),
   ppe_current |-> Get(current_year, "PropertyPlantEquipment", Zero),
   ppe_prior |-> Get(prior_year, "PropertyPlantEquipment", Zero),
   current_assets_current |-> Get(current_year, "CurrentAssets", Zero),
   current_assets_prior |-> Get(prior_year, "CurrentAssets", Zero),
   depreciation_current |-> Get(current_year, "DepreciationAndAmortization", One),
   depreciation_prior |-> Get(prior_year, "DepreciationAndAmortization", One),
   sga_current |-> _estimate_sga(current_year),
   sga_prior |-> _estimate_sga(prior_year),
   total_debt_current |-> Get(current_year, "Liabilities", Zero),
   total_debt_prior |-> Get(prior_year, "Liabilities", Zero),
   net_income_current |-> Get(current_year, "NetIncome", Zero),
   operating_cf_current |-> Get(current_year, "OperatingCashFlow", Zero)]

\* the body of the try block for pair i (0-based): the result to append, or
\* the exception the except clause catches
beneish_pair(annual_data, i) ==
  LET current_year == annual_data[i + 1]
      prior_year == annual_data[i + 2]
  IN Bind(beneish_data_of(current_year, prior_year), LAMBDA beneish_data :
       IF IsRaise(beneish_data["sga_current"])
       THEN [exc |-> ExcName(beneish_data["sga_current"])]
       ELSE IF IsRaise(beneish_data["sga_prior"])
       THEN [exc |-> ExcName(beneish_data["sga_prior"])]
       ELSE Bind(calculate_m_score(beneish_data), LAMBDA r :
         IF r.exc # "" THEN [exc |-> r.exc]
         ELSE [exc |-> "",
               result |-> [period |-> Get(current_year, "fiscal_year_end", None),
                           comparison_to |-> Get(prior_year, "fiscal_year_end", None),
                           m_score |-> r.m_score,
                           variables |-> r.variables,
                           interpretation |-> interpret_score(r.m_score),
                           variable_flags |-> analyze_variables(r.variables)]]))

\* the loop with each result put in front of those before it
RECURSIVE beneish_loop_oldest_first(_, _, _)
beneish_loop_oldest_first(annual_data, i, st) ==
  IF i >= Len(annual_data) - 1 THEN st
  ELSE Bind(beneish_pair(annual_data, i), LAMBDA p :
         Bind(IF p.exc = ""
              THEN [results |-> <<p.result>> \o st.results, printed |-> st.printed,
                    variables |-> p.result.variables, score |-> p.result.m_score]
              ELSE [results |-> st.results,
                    printed |-> Append(st.printed, [period |-> i, exc |-> p.exc]),
                    variables |-> st.variables, score |-> st.score],
              LAMBDA next : beneish_loop_oldest_first(annual_data, i + 1, next)))

\* the loop from pair i on: results appended, warnings printed, and the
\* calculator's variables and score as the last successful call left them
RECURSIVE beneish_loop(_, _, _)
beneish_loop(annual_data, i, st) ==
  IF i >= Len(annual_data) - 1 THEN st
  ELSE Bind(beneish_pair(annual_data, i), LAMBDA p :
         Bind(IF p.exc = ""
              THEN [results |-> Append(st.results, p.result), printed |-> st.printed,
                    variables |-> p.result.variables, score |-> p.result.m_score]
              ELSE [results |-> st.results,
                    printed |-> Append(st.printed, [period |-> i, exc |-> p.exc]),
                    variables |-> st.variables, score |-> st.score],
              LAMBDA next : beneish_loop(annual_data, i + 1, next)))

_calculate_beneish_scores(annual_data, calc_variables, calc_score) ==
  beneish_loop(annual_data, 0,
               [results |-> <<>>, printed |-> <<>>,
                variables |-> calc_variables, score |-> calc_score])

\* the M-Score trend with ">=" for ">"
m_score_trend_of_inclusive(beneish_results) ==
  IF Len(beneish_results) >= 2
  THEN LET latest == beneish_results[1].m_score
           oldest == beneish_results[Len(beneish_results)].m_score
       IN [present |-> TRUE,
           direction |-> IF Ge(latest, oldest) THEN "Worsening" ELSE "Improving",
           latest |-> latest, oldest |-> oldest,
           change |-> PySub(latest, oldest), is_deteriorating |-> Ge(latest, oldest)]
  ELSE NoMScoreTrend

\* "M-Score trend"
m_score_trend_of(beneish_results) ==
  IF Len(beneish_results) >= 2
  THEN LET latest == beneish_results[1].m_score
           oldest == beneish_results[Len(beneish_results)].m_score
       IN [present |-> TRUE,
           direction |-> IF Gt(latest, oldest) THEN "Worsening" ELSE "Improving",
           latest |-> latest, oldest |-> oldest,
           change |-> PySub(latest, oldest), is_deteriorating |-> Gt(latest, oldest)]
  ELSE NoMScoreTrend

\* "Revenue growth trend": the entry, or the exception
revenue_growth_of(annual_data) ==
  IF Len(annual_data) < 3 THEN [exc |-> "", entry |-> NoRevenueGrowth]
  ELSE LET revenues == Column(Take(annual_data, 3), "Revenues")
           all_positive == PyAnd(PyGt(revenues[1], Zero),
                           PyAnd(PyGt(revenues[2], Zero), PyGt(revenues[3], Zero)))
           g1 == Pct(revenues[1], revenues[2])
           g2 == Pct(revenues[2], revenues[3])
       IN IF all_positive = "T"
          THEN [exc |-> "",
                entry |-> [present |-> TRUE, latest_rate |-> g1,
                           average_rate |-> PyDiv(PyAdd(g1, g2), R(2)),
                           is_accelerating |-> Gt(g1, g2)]]
          ELSE IF all_positive = "F" THEN [exc |-> "", entry |-> NoRevenueGrowth]
          ELSE [exc |-> all_positive, entry |-> NoRevenueGrowth]

\* the "for year in annual_data[:3]" loop of the profitability trend
RECURSIVE margins_of(_, _)
margins_of(years, st) ==
  IF years = <<>> \/ st.exc # "" THEN st
  ELSE LET revenue == Get(Head(years), "Revenues", Zero)
           net_income == Get(Head(years), "NetIncome", Zero)
           margin == PyMul(PyDiv(net_income, revenue), R(100))
           has_revenue == PyAnd(PyGt(revenue, Zero), Computed(margin))
       IN margins_of(Tail(years),
            IF has_revenue = "T" THEN [exc |-> "", margins |-> Append(st.margins, margin)]
            ELSE IF has_revenue = "F" THEN st
            ELSE [exc |-> has_revenue, margins |-> st.margins])

\* "Profitability trend"
profit_margin_of(annual_data) ==
  IF Len(annual_data) < 3 THEN [exc |-> "", entry |-> NoProfitMargin]
  ELSE LET m == margins_of(Take(annual_data, 3), [exc |-> "", margins |-> <<>>])
           margins == m.margins
       IN IF m.exc # "" THEN [exc |-> m.exc, entry |-> NoProfitMargin]
          ELSE IF margins = <<>> THEN [exc |-> "", entry |-> NoProfitMargin]
          ELSE [exc |-> "",
                entry |-> [present |-> TRUE, latest |-> margins[1],
                           average |-> PyDiv(PySum(margins), R(Len(margins))),
                           is_improving |-> IF Len(margins) >= 2
                                            THEN Gt(margins[1], margins[Len(margins)])
                                            ELSE FALSE]]

\* "Cash flow trend"
cash_flow_quality_of(annual_data) ==
  IF Len(annual_data) < 2 THEN [exc |-> "", entry |-> NoCashFlowQuality]
  ELSE LET ni == Get(annual_data[1], "NetIncome", Zero)
           ocf == Get(annual_data[1], "OperatingCashFlow", Zero)
           ratio == PyDiv(ocf, ni)
           positive == PyAnd(PyGt(ni, Zero), Computed(ratio))
       IN IF positive = "T"
          THEN [exc |-> "",
                entry |-> [present |-> TRUE, cf_to_ni_ratio |-> ratio,
                           is_healthy |-> Gt(ratio, Milli(800))]]
          ELSE IF positive = "F" THEN [exc |-> "", entry |-> NoCashFlowQuality]
          ELSE [exc |-> positive, entry |-> NoCashFlowQuality]

\* the trends dict, or the exception _analyze_trends ends in
_analyze_trends(annual_data, beneish_results) ==
  LET rg == revenue_growth_of(annual_data)
      pm == profit_margin_of(annual_data)
      cf == cash_flow_quality_of(annual_data)
      exc == IF rg.exc # "" THEN rg.exc ELSE IF pm.exc # "" THEN pm.exc ELSE cf.exc
  IN [exc |-> exc,
      trends |-> IF exc # "" THEN NoTrends
                 ELSE [m_score_trend |-> m_score_trend_of(beneish_results),
                       revenue_growth |-> rg.entry,
                       profit_margin |-> pm.entry,
                       cash_flow_quality |-> cf.entry]]

_serialize_red_flag(red_flag) ==
  [category |-> red_flag.category, severity |-> red_flag.severity,
   title |-> red_flag.title, description |-> red_flag.description,
   metrics |-> red_flag.metrics, implications |-> red_flag.implications,
   recommendations |-> red_flag.recommendations]

\* the comprehension with each entry put in front of those before it
RECURSIVE serialize_all_newest_first(_)
serialize_all_newest_first(red_flags) ==
  IF red_flags = <<>> THEN <<>>
  ELSE serialize_all_newest_first(Tail(red_flags)) \o <<_serialize_red_flag(Head(red_flags))>>

\* "[self._serialize_red_flag(rf) for rf in red_flags]"
RECURSIVE serialize_all(_)
serialize_all(red_flags) ==
  IF red_flags = <<>> THEN <<>>
  ELSE <<_serialize_red_flag(Head(red_flags))>> \o serialize_all(Tail(red_flags))

\* "self.analysis_results = {...}"
compile_results(annual_data, beneish_results, red_flags, trends, assessment) ==
  [metadata |-> [years_analyzed |-> Len(annual_data)],
   annual_data |-> annual_data,
   beneish_scores |-> beneish_results,
   red_flags |-> serialize_all(red_flags),
   trends |-> trends,
   assessment |-> assessment]

(***************************************************************************)
(* State                                                                   *)
(***************************************************************************)
VARIABLES
  financial_data,   \* the mapping handed to calculate_m_score
  variables,        \* BeneishMScore.variables
  score,            \* BeneishMScore.score
  m_result,         \* what the last calculate_m_score call returned or raised
  score_arg,        \* the m_score handed to the last interpret_score call
  interpretation,   \* what that call returned
  variables_arg,    \* the variables handed to the last analyze_variables call
  variable_flags,   \* what that call returned
  cpc,              \* what the calculator's caller did last
  fetched,          \* what sec_fetcher.get_financial_data returns
  annual_data,      \* the prepared annual records, most recent first
  beneish_results,  \* analyze_company's beneish_results
  printed,          \* the warnings the Beneish loop printed
  findings,         \* ForensicRedFlagAnalyzer.findings
  red_flags,        \* analyze_company's red_flags
  trends,           \* analyze_company's trends
  assessment,       \* analyze_company's assessment
  analysis_results, \* ForensicAccountingAnalyzer.analysis_results
  raised,           \* the exception analyze_company ended in, "" for none
  pc,               \* the step analyze_company is about to take
  calls,            \* the number of analyze_all calls a caller of the rule engine made
  threads,          \* per parallel analysis: its position and its local variables
  objects,          \* the lists and the attributes the parallel analyses work on
  instance_of,      \* per parallel analysis: its ForensicAccountingAnalyzer
  schedule,         \* the analysis that ran last, and the thread switches so far
  estimate_arg,     \* the record handed to the last _estimate_sga call
  estimate          \* what that call returned or raised

calc_vars ==
  <<financial_data, variables, score, m_result, score_arg, interpretation,
    variables_arg, variable_flags, cpc>>

orch_vars ==
  <<fetched, annual_data, beneish_results, printed, findings, red_flags, trends, assessment,
    analysis_results, raised, pc>>

par_vars == <<threads, objects, instance_of, schedule>>

est_vars == <<estimate_arg, estimate>>

vars == <<calc_vars, orch_vars, calls, par_vars, est_vars>>

NoResult == [exc |-> "", missing |-> <<>>, m_score |-> None, variables |-> NoVariables]
NoInterpretation ==
  [score |-> None, threshold |-> None, is_likely_manipulator |-> FALSE, risk_level |-> ""]

NoAssessment ==
  [risk_level |-> "", risk_score |-> 0, risk_factors |-> <<>>, total_red_flags |-> 0,
   critical_red_flags |-> 0, high_red_flags |-> 0, medium_red_flags |-> 0]

\* no call of get_financial_data yet
NotFetched == [company_info |-> "None", financial_metrics |-> <<>>]

\* ForensicAccountingAnalyzer.__init__ and ForensicRedFlagAnalyzer.__init__
AnalyzerConstructed ==
  /\ beneish_results = <<>>
  /\ printed = <<>>
  /\ findings = <<>>
  /\ red_flags = <<>>
  /\ trends = NoTrends
  /\ assessment = NoAssessment
  /\ analysis_results = <<>>
  /\ raised = ""
  /\ calls = 0
  /\ threads = <<>>
  /\ objects = <<>>
  /\ instance_of = <<>>
  /\ schedule = <<>>
  /\ estimate_arg = <<>>
  /\ estimate = None

\* BeneishMScore.__init__, before any call
CalculatorConstructed ==
  /\ variables = NoVariables
  /\ score = None
  /\ m_result = NoResult
  /\ score_arg = None
  /\ interpretation = NoInterpretation
  /\ variables_arg = NoVariables
  /\ variable_flags = <<>>
  /\ cpc = "constructed"

(***************************************************************************)
(* calculate_m_score on a base mapping with a few entries replaced         *)
(***************************************************************************)
MaxVal == 2
MaxEdits == 2

\* what one entry of the input mapping can be: a number, or not there at all
FieldOptions == {R(v) : v \in -1..MaxVal} \cup {Absent}

\* a company with ordinary figures, one whose figures are all 1, an empty one
BaseData ==
  {[ar_current |-> R(1), ar_prior |-> R(1), sales_current |-> R(2), sales_prior |-> R(2),
    cogs_current |-> R(1), cogs_prior |-> R(1),
    total_assets_current |-> R(2), total_assets_prior |-> R(2),
    ppe_current |-> R(1), ppe_prior |-> R(1),
    current_assets_current |-> R(0), current_assets_prior |-> R(0),
    depreciation_current |-> R(1), depreciation_prior |-> R(1),
    sga_current |-> R(1), sga_prior |-> R(1),
    total_debt_current |-> R(1), total_debt_prior |-> R(1),
    net_income_current |-> R(1), operating_cf_current |-> R(1)],
   [f \in Fields |-> R(1)],
   [f \in Fields |-> R(0)]}

\* the sets of at most k elements of S
RECURSIVE SubsetsUpTo(_, _)
SubsetsUpTo(S, k) ==
  IF k = 0 THEN {{}}
  ELSE LET smaller == SubsetsUpTo(S, k - 1)
       IN smaller \cup {F \cup {x} : F \in smaller, x \in S}

InitCalc ==
  /\ \E base \in BaseData, F \in SubsetsUpTo(Fields, MaxEdits) :
       \E e \in [F -> FieldOptions] :
         financial_data = [f \in Fields |-> IF f \in F THEN e[f] ELSE base[f]]
  /\ CalculatorConstructed
  /\ AnalyzerConstructed
  /\ fetched = NotFetched
  /\ annual_data = <<>>
  /\ pc = "idle"

\* m_score, variables = calculator.calculate_m_score(financial_data)
CalculateMScore ==
  /\ cpc = "constructed"
  /\ m_result' = calculate_m_score(financial_data)
  /\ IF m_result'.exc = ""
     THEN /\ variables' = m_result'.variables
          /\ score' = m_result'.m_score
          /\ cpc' = "calculated"
     ELSE /\ UNCHANGED <<variables, score>>
          /\ cpc' = "raised"
  /\ UNCHANGED <<financial_data, score_arg, interpretation, variables_arg, variable_flags>>
  /\ UNCHANGED <<orch_vars, calls, par_vars, est_vars>>

NextCalc == CalculateMScore

SpecCalc == InitCalc /\ [][NextCalc]_vars

(***************************************************************************)
(* interpret_score on scores around the three cut-offs                     *)
(***************************************************************************)
MaxSpan == 60

\* -3.10 .. -1.18 in steps of 0.01
ScoreGrid == {Norm(k, 100) : k \in (-250 - MaxSpan)..(-178 + MaxSpan)}

AllAbsent == [f \in Fields |-> Absent]

InitInterpret ==
  /\ financial_data = AllAbsent
  /\ CalculatorConstructed
  /\ AnalyzerConstructed
  /\ fetched = NotFetched
  /\ annual_data = <<>>
  /\ pc = "idle"

\* calculator.interpret_score(m_score)
InterpretScore ==
  /\ cpc = "constructed"
  /\ \E m_score \in ScoreGrid :
       /\ score_arg' = m_score
       /\ interpretation' = interpret_score(m_score)
  /\ cpc' = "interpreted"
  /\ UNCHANGED <<financial_data, variables, score, m_result, variables_arg, variable_flags>>
  /\ UNCHANGED <<orch_vars, calls, par_vars, est_vars>>

NextInterpret == InterpretScore

SpecInterpret == InitInterpret /\ [][NextInterpret]_vars

(***************************************************************************)
(* analyze_variables on values just below, at and just above each          *)
(* threshold, or missing from the mapping                                  *)
(***************************************************************************)
ThresholdOf(name) ==
  LET i == CHOOSE j \in 1..Len(VariableChecks) : VariableChecks[j].variable = name
  IN VariableChecks[i].threshold

\* option 2 leaves the name out of the mapping
VariableOption(name, option) ==
  IF option = 2 THEN Absent ELSE PyAdd(ThresholdOf(name), Milli(option))

InitFlags ==
  /\ financial_data = AllAbsent
  /\ CalculatorConstructed
  /\ AnalyzerConstructed
  /\ fetched = NotFetched
  /\ annual_data = <<>>
  /\ pc = "idle"

\* calculator.analyze_variables(variables)
AnalyzeVariables ==
  /\ cpc = "constructed"
  /\ \E option \in [VarNames -> -1..2] :
       LET v == [n \in VarNames |-> VariableOption(n, option[n])]
       IN /\ variables_arg' = v
          /\ variable_flags' = analyze_variables(v)
  /\ cpc' = "analyzed"
  /\ UNCHANGED <<financial_data, variables, score, m_result, score_arg, interpretation>>
  /\ UNCHANGED <<orch_vars, calls, par_vars, est_vars>>

NextFlags == AnalyzeVariables

SpecFlags == InitFlags /\ [][NextFlags]_vars

(***************************************************************************)
(* analyze_company from step 3 on, over a base series of annual records    *)
(* with a few entries of one year replaced by None, by 0 or left out       *)
(***************************************************************************)
MaxYears == 3
MaxBad == 1

AnnualFields ==
  {"Revenues", "CostOfRevenue", "OperatingIncome", "NetIncome",
   "DepreciationAndAmortization", "Assets", "CurrentAssets", "AccountsReceivable",
   "Inventory", "PropertyPlantEquipment", "Liabilities", "CurrentLiabilities",
   "StockholdersEquity", "OperatingCashFlow"}

\* year i (1 is the most recent) of a company whose figures do not change
SteadyYear(i) ==
  [fiscal_year_end |-> R(2025 - i),
   Revenues |-> R(10), CostOfRevenue |-> R(6), OperatingIncome |-> R(2),
   NetIncome |-> R(2), DepreciationAndAmortization |-> R(1), Assets |-> R(20),
   CurrentAssets |-> R(8), AccountsReceivable |-> R(2), Inventory |-> R(2),
   PropertyPlantEquipment |-> R(8), Liabilities |-> R(10), CurrentLiabilities |-> R(4),
   StockholdersEquity |-> R(10), OperatingCashFlow |-> R(2)]

\* year i of a company whose receivables, inventory, soft assets and debt grow
\* from year to year while margins, liquidity and cash flow fall
WorseningYear(i) ==
  [fiscal_year_end |-> R(2025 - i),
   Revenues |-> R(10), CostOfRevenue |-> R(4 + 2 * (MaxYears + 1 - i)),
   OperatingIncome |-> R(1),
   NetIncome |-> R(2), DepreciationAndAmortization |-> R(1), Assets |-> R(20),
   CurrentAssets |-> R(2 + 2 * i), AccountsReceivable |-> R(2 * (MaxYears + 2 - i)),
   Inventory |-> R(2 * (MaxYears + 2 - i)),
   PropertyPlantEquipment |-> R(4), Liabilities |-> R(6 * (MaxYears + 2 - i)),
   CurrentLiabilities |-> R(4),
   StockholdersEquity |-> R(10), OperatingCashFlow |-> R(i - 2)]

BaseSeries(n) == {[i \in 1..n |-> SteadyYear(i)], [i \in 1..n |-> WorseningYear(i)]}

\* what the "val" of a replaced entry is: None, 0, or no "val" key at all
CellOptions == {None, Zero, Absent}

\* financial_metrics of a series: per metric the list of entries, most recent
\* first, with the entries of one year replaced
MetricsOf(series, bad_year, e) ==
  [f \in AnnualFields |->
     [i \in 1..Len(series) |->
        [end |-> series[i]["fiscal_year_end"],
         val |-> IF i = bad_year /\ f \in DOMAIN e THEN e[f] ELSE series[i][f]]]]

\* financial_metrics with the list of one metric cut to its first k entries,
\* or without that metric when k = -1
CutMetrics(metrics, metric, k) ==
  IF k = -1 THEN [f \in DOMAIN metrics \ {metric} |-> metrics[f]]
  ELSE [f \in DOMAIN metrics |->
          IF f = metric THEN SubSeq(metrics[f], 1, k) ELSE metrics[f]]

\* the results of the fetch: none, no metrics, a series with the entries of
\* one year replaced, or a series with one metric cut short or left out
FetchOptions ==
  {NotFetched, [company_info |-> "info", financial_metrics |-> <<>>]}
  \cup
  {[company_info |-> "info", financial_metrics |-> MetricsOf(base, bad_year, e)] :
     <<base, bad_year, e>> \in
       UNION {BaseSeries(n) \X {y} \X [cells -> CellOptions] :
                <<n, y, cells>> \in
                  {t \in (0..MaxYears) \X (0..MaxYears) \X SubsetsUpTo(AnnualFields, MaxBad) :
                     t[2] <= t[1] /\ ((t[2] = 0) = (t[3] = {}))}}}
  \cup
  {[company_info |-> "info",
    financial_metrics |-> CutMetrics(MetricsOf(base, 0, <<>>), metric, k)] :
     <<base, metric, k>> \in
       UNION {BaseSeries(n) \X AnnualFields \X (-1..(n - 1)) : n \in 1..MaxYears}}

\* the value _prepare_annual_data stores for a metric in year i
PreparedValue(metric_values, i) ==
  IF i <= Len(metric_values)
  THEN Get(metric_values[i], "val", Zero)
  ELSE Zero

\* the records of _prepare_annual_data; a metric the fetch did not deliver is
\* a key that is not in the record
_prepare_annual_data(financial_metrics) ==
  LET revenues == IF "Revenues" \in DOMAIN financial_metrics
                  THEN financial_metrics["Revenues"] ELSE <<>>
      num_years == Len(revenues)
  IN [i \in 1..num_years |->
        [f \in AnnualFields \cup {"fiscal_year_end"} |->
           IF f = "fiscal_year_end" THEN revenues[i]["end"]
           ELSE IF f \in DOMAIN financial_metrics
           THEN PreparedValue(financial_metrics[f], i)
           ELSE Absent]]

InitAnalysis ==
  /\ fetched \in FetchOptions
  /\ annual_data = <<>>
  /\ financial_data = AllAbsent
  /\ CalculatorConstructed
  /\ AnalyzerConstructed
  /\ pc = "step1"

\* Steps 1 and 2: get_financial_data, the check of what it returned, and
\* annual_data = self._prepare_annual_data(financial_metrics)
GatherData ==
  /\ pc = "step1"
  /\ IF fetched.company_info = "None" \/ fetched.financial_metrics = <<>>
     THEN raised' = "ValueError" /\ pc' = "aborted" /\ annual_data' = annual_data
     ELSE /\ annual_data' = _prepare_annual_data(fetched.financial_metrics)
          /\ raised' = raised
          /\ pc' = "step3"
  /\ UNCHANGED <<calc_vars, calls, par_vars, est_vars>>
  /\ UNCHANGED <<fetched, beneish_results, printed, findings, red_flags, trends,
                 assessment, analysis_results>>

\* Step 3: beneish_results = self._calculate_beneish_scores(annual_data)
CalculateBeneishScores ==
  /\ pc = "step3"
  /\ \E r \in {_calculate_beneish_scores(annual_data, variables, score)} :
        /\ beneish_results' = r.results
        /\ printed' = r.printed
        /\ variables' = r.variables
        /\ score' = r.score
  /\ pc' = "step4"
  /\ UNCHANGED <<financial_data, m_result, score_arg, interpretation, variables_arg,
                 variable_flags, cpc, calls, par_vars, est_vars>>
  /\ UNCHANGED <<fetched, annual_data, findings, red_flags, trends, assessment, analysis_results,
                 raised>>

\* Step 4: red_flags = self.red_flag_analyzer.analyze_all(annual_data)
DetectRedFlags ==
  /\ pc = "step4"
  /\ \E r \in {analyze_all(annual_data)} :
        /\ findings' = r.findings
        /\ IF r.exc = ""
           THEN red_flags' = r.findings /\ raised' = raised /\ pc' = "step5"
           ELSE red_flags' = red_flags /\ raised' = r.exc /\ pc' = "aborted"
  /\ UNCHANGED <<calc_vars, calls, par_vars, est_vars>>
  /\ UNCHANGED <<fetched, annual_data, beneish_results, printed, trends, assessment,
                 analysis_results>>

\* Step 5: trends = self._analyze_trends(annual_data, beneish_results)
AnalyzeTrends ==
  /\ pc = "step5"
  /\ \E r \in {_analyze_trends(annual_data, beneish_results)} :
        IF r.exc = ""
        THEN trends' = r.trends /\ raised' = raised /\ pc' = "step6"
        ELSE trends' = trends /\ raised' = r.exc /\ pc' = "aborted"
  /\ UNCHANGED <<calc_vars, calls, par_vars, est_vars>>
  /\ UNCHANGED <<fetched, annual_data, beneish_results, printed, findings, red_flags, assessment,
                 analysis_results>>

\* Step 6 and "Compile results": assessment = self._generate_assessment(...)
GenerateAssessment ==
  /\ pc = "step6"
  /\ assessment' = _generate_assessment(beneish_results, red_flags, trends)
  /\ analysis_results' =
       compile_results(annual_data, beneish_results, red_flags, trends, assessment')
  /\ pc' = "done"
  /\ UNCHANGED <<calc_vars, calls, par_vars, est_vars>>
  /\ UNCHANGED <<fetched, annual_data, beneish_results, printed, findings, red_flags, trends, raised>>

Init == InitAnalysis

Next ==
  GatherData \/ CalculateBeneishScores \/ DetectRedFlags \/ AnalyzeTrends \/ GenerateAssessment

Spec == Init /\ [][Next]_vars

(***************************************************************************)
(* _generate_assessment on its own: step 6 over enumerated Beneish         *)
(* results, red flags and trends                                           *)
(***************************************************************************)
MaxFlags == 5

\* latest M-Scores just below, at and just above each tier bound, in thousandths
LatestScores == {-1770, -1780, -1790, -2210, -2220, -2230, -2490, -2500, -3000}

Severities == <<"Critical", "High", "Medium", "Low">>

\* a Beneish result as the loop appends it, for an M-Score of k thousandths
ResultWithScore(k) ==
  [period |-> R(2024), comparison_to |-> R(2023), m_score |-> Milli(k),
   variables |-> NoVariables, interpretation |-> interpret_score(Milli(k)),
   variable_flags |-> <<>>]

\* n findings of one severity
FlagsOf(severity, n) ==
  [i \in 1..n |-> Finding("Enumerated", severity, "Enumerated finding", <<>>)]

\* what the latest profit margin is when the trend is present, in percent
MarginOptions == {4, 5, 6}

InitAssess ==
  /\ beneish_results \in {<<>>} \cup {<<ResultWithScore(k)>> : k \in LatestScores}
  /\ \E count \in [1..4 -> 0..MaxFlags] :
       /\ count[1] + count[2] + count[3] + count[4] <= MaxFlags
       /\ red_flags = FlagsOf(Severities[1], count[1]) \o FlagsOf(Severities[2], count[2])
                      \o FlagsOf(Severities[3], count[3]) \o FlagsOf(Severities[4], count[4])
  /\ \E mt \in {NoMScoreTrend} \cup
               {[present |-> TRUE, direction |-> IF b THEN "Worsening" ELSE "Improving",
                 latest |-> Zero, oldest |-> Zero, change |-> Zero,
                 is_deteriorating |-> b] : b \in BOOLEAN},
        pm \in {NoProfitMargin} \cup
               {[present |-> TRUE, latest |-> R(m), average |-> R(m), is_improving |-> b] :
                  m \in MarginOptions, b \in BOOLEAN},
        cf \in {NoCashFlowQuality} \cup
               {[present |-> TRUE, cf_to_ni_ratio |-> One, is_healthy |-> b] :
                  b \in BOOLEAN} :
       trends = [m_score_trend |-> mt, revenue_growth |-> NoRevenueGrowth,
                 profit_margin |-> pm, cash_flow_quality |-> cf]
  /\ findings = red_flags
  /\ printed = <<>>
  /\ assessment = NoAssessment
  /\ analysis_results = <<>>
  /\ raised = ""
  /\ calls = 0
  /\ threads = <<>>
  /\ objects = <<>>
  /\ instance_of = <<>>
  /\ schedule = <<>>
  /\ estimate_arg = <<>>
  /\ estimate = None
  /\ fetched = NotFetched
  /\ annual_data = <<>>
  /\ financial_data = AllAbsent
  /\ CalculatorConstructed
  /\ pc = "step6"

NextAssess == GenerateAssessment

SpecAssess == InitAssess /\ [][NextAssess]_vars

(***************************************************************************)
(* ForensicRedFlagAnalyzer on its own: calls of analyze_all on one         *)
(* analyzer over enumerated series                                         *)
(***************************************************************************)
MaxPeriods == 6
MaxCalls == 2

\* record with the values of changes in place of its own
With(record, changes) ==
  [f \in DOMAIN record |-> IF f \in DOMAIN changes THEN changes[f] ELSE record[f]]

\* a year in which no rule fires against an equal prior year
RuleYear ==
  [Revenues |-> R(20), CostOfRevenue |-> R(9), OperatingIncome |-> R(4),
   NetIncome |-> R(100), DepreciationAndAmortization |-> R(1), Assets |-> R(100),
   CurrentAssets |-> R(40), AccountsReceivable |-> R(10), Inventory |-> R(10),
   PropertyPlantEquipment |-> R(40), Liabilities |-> R(50), CurrentLiabilities |-> R(20),
   StockholdersEquity |-> R(50), OperatingCashFlow |-> R(100)]

\* AccountsReceivable and CostOfRevenue as <<prior, current>>: no change, a
\* change on a threshold of its rule, and a change beyond it
ReceivablesOptions == {<<10, 10>>, <<10, 11>>, <<10, 12>>, <<10, 13>>, <<30, 33>>, <<45, 54>>}
CostOptions == {<<9, 9>>, <<9, 10>>, <<9, 11>>, <<9, 12>>, <<8, 9>>, <<8, 10>>}

\* <<NetIncome, OperatingCashFlow>> of the most recent year
CashOptions ==
  {<<R(100), R(100)>>, <<R(100), R(85)>>, <<R(100), R(80)>>, <<R(100), R(70)>>,
   <<R(100), R(50)>>, <<R(100), R(40)>>, <<R(100), R(-10)>>, <<Zero, R(40)>>,
   <<R(-100), R(40)>>, <<None, R(40)>>}

\* values of the most recent year that trip the inventory, current ratio,
\* leverage and soft asset rules
Toggles ==
  [Inventory |-> R(13), CurrentAssets |-> R(20), Liabilities |-> R(100),
   PropertyPlantEquipment |-> R(20)]

\* the rules tripped together: none, one, or all four
TrippedOptions == {{}, DOMAIN Toggles} \cup {{f} : f \in DOMAIN Toggles}

MainSeries(ar, cost, cash, tripped, n) ==
  [i \in 1..n |->
     IF i = 1
     THEN With(With(RuleYear, [AccountsReceivable |-> R(ar[2]), CostOfRevenue |-> R(cost[2]),
                               NetIncome |-> cash[1], OperatingCashFlow |-> cash[2]]),
               [f \in tripped |-> Toggles[f]])
     ELSE IF i = 2
     THEN With(RuleYear, [AccountsReceivable |-> R(ar[1]), CostOfRevenue |-> R(cost[1])])
     ELSE RuleYear]

MainInputs ==
  {MainSeries(ar, cost, cash, tripped, n) :
     ar \in ReceivablesOptions, cost \in CostOptions, cash \in CashOptions,
     tripped \in TrippedOptions, n \in 2..3}

\* NetIncome and OperatingCashFlow of year i (1 is the most recent) of a course
NetIncomeCourses == {"flat", "wavy", "gaps", "losses", "unknown"}
NetIncomeOf(course, i) ==
  IF course = "flat" THEN R(100)
  ELSE IF course = "wavy" THEN (IF i % 2 = 1 THEN R(100) ELSE R(120))
  ELSE IF course = "gaps" THEN (IF i \in {4, 5} THEN Zero ELSE R(100))
  ELSE IF course = "losses" THEN (IF i % 2 = 1 THEN R(100) ELSE R(-100))
  ELSE None

CashFlowCourses == {"flat", "swings", "mild", "late", "gap"}
CashFlowOf(course, i) ==
  IF course = "flat" THEN R(100)
  ELSE IF course = "swings" THEN (IF i % 2 = 1 THEN R(100) ELSE R(200))
  ELSE IF course = "mild" THEN (IF i % 2 = 1 THEN R(100) ELSE R(150))
  ELSE IF course = "late" THEN (IF i > 5 THEN R(900) ELSE R(100))
  ELSE (IF i = 2 THEN Zero ELSE R(100))

CourseSeries(ni, cf, n) ==
  [i \in 1..n |->
     With(RuleYear, [NetIncome |-> NetIncomeOf(ni, i),
                     OperatingCashFlow |-> CashFlowOf(cf, i)])]

CourseInputs ==
  {CourseSeries(ni, cf, n) : ni \in NetIncomeCourses, cf \in CashFlowCourses, n \in 0..MaxPeriods}

\* the series of a first call, and the series of the calls after it
RuleInputs == MainInputs \cup CourseInputs
RepeatInputs ==
  {MainSeries(<<10, 10>>, <<9, 9>>, <<R(100), R(100)>>, {}, 2),
   MainSeries(<<10, 13>>, <<9, 12>>, <<R(100), R(40)>>, DOMAIN Toggles, 3),
   CourseSeries("flat", "swings", 1), CourseSeries("flat", "swings", 5)}

InitRules ==
  /\ CalculatorConstructed
  /\ AnalyzerConstructed
  /\ financial_data = AllAbsent
  /\ fetched = NotFetched
  /\ annual_data = <<>>
  /\ pc = "idle"

\* red_flags = analyzer.analyze_all(data) by a caller of the rule engine
AnalyzeAll ==
  /\ calls < MaxCalls
  /\ \E data \in IF calls = 0 THEN RuleInputs ELSE RepeatInputs :
       \E r \in {analyze_from(data, [exc |-> "", findings |-> reset_findings(findings)])} :
          /\ annual_data' = data
          /\ findings' = r.findings
          /\ IF r.exc = ""
             THEN red_flags' = r.findings /\ raised' = ""
             ELSE red_flags' = red_flags /\ raised' = r.exc
  /\ calls' = calls + 1
  /\ UNCHANGED <<calc_vars, par_vars, est_vars>>
  /\ UNCHANGED <<fetched, beneish_results, printed, trends, assessment, analysis_results, pc>>

NextRules == AnalyzeAll

SpecRules == InitRules /\ [][NextRules]_vars

(***************************************************************************)
(* Two analyze_company calls running in parallel threads.  A thread switch *)
(* is taken between the steps of analyze_company and between the rule      *)
(* groups of analyze_all; a list is an object that several names can hold. *)
(***************************************************************************)
Analyses == {1, 2}

\* thread switches taken while the thread that was running has not ended
MaxSwitches == 1

\* the series the two analyses work on: the first a company with findings, the
\* second any company, one with a single period among them
FirstInputs == {[i \in 1..2 |-> WorseningYear(i)]}
SecondInputs == BaseSeries(2) \cup {[i \in 1..1 |-> SteadyYear(i)]}
ParallelInputs == [Analyses -> FirstInputs \cup SecondInputs]

\* the statements of analyze_company from Step 3 on, those of analyze_all
\* in place of its call
Steps ==
  <<"step3", "reset", "rules", "rules", "rules", "rules", "rules", "rules", "rules",
    "return", "counts", "step5", "step6", "compile", "result">>

\* the position of the return of analyze_all
ReturnStep == CHOOSE k \in 1..Len(Steps) : Steps[k] = "return"

\* the analyze_* calls made when the statement at position k has run
CallsMade(k) == Cardinality({j \in 1..k : Steps[j] = "rules"})

\* the k-th analyze_* call of analyze_all
RuleGroup(k, series, acc) ==
  IF k = 1 THEN analyze_revenue_quality(series, acc)
  ELSE IF k = 2 THEN analyze_cash_flow_quality(series, acc)
  ELSE IF k = 3 THEN analyze_working_capital(series, acc)
  ELSE IF k = 4 THEN analyze_earnings_quality(series, acc)
  ELSE IF k = 5 THEN analyze_asset_quality(series, acc)
  ELSE IF k = 6 THEN analyze_debt_trends(series, acc)
  ELSE analyze_margins(series, acc)

\* the list objects: that of each analyzer's constructor, and the one that
\* the analyze_all call of each analysis creates
ConstructorList(instance) == instance
CallList(t) == Cardinality(Analyses) + t

\* ForensicAccountingAnalyzer(), once per analysis or once for both
InitParallel ==
  /\ instance_of \in {[t \in Analyses |-> t], [t \in Analyses |-> 1]}
  /\ \E data \in {d \in ParallelInputs : d[1] \in FirstInputs /\ d[2] \in SecondInputs} :
       threads = [t \in Analyses |->
                    [at |-> 1, annual_data |-> data[t], beneish_results |-> <<>>,
                     red_flags |-> 0, severity_counts |-> get_severity_counts(<<>>),
                     trends |-> NoTrends, assessment |-> NoAssessment,
                     returned |-> <<>>, raised |-> ""]]
  /\ objects = [lists |-> [l \in 1..(2 * Cardinality(Analyses)) |-> <<>>],
                findings |-> [i \in Analyses |-> ConstructorList(i)],
                calculator |-> [i \in Analyses |-> [variables |-> NoVariables, score |-> None]],
                analysis_results |-> [i \in Analyses |-> <<>>]]
  /\ schedule = [last |-> 0, switches |-> 0]
  /\ estimate_arg = <<>>
  /\ estimate = None
  /\ CalculatorConstructed
  /\ financial_data = AllAbsent
  /\ fetched = NotFetched
  /\ annual_data = <<>>
  /\ beneish_results = <<>>
  /\ printed = <<>>
  /\ findings = <<>>
  /\ red_flags = <<>>
  /\ trends = NoTrends
  /\ assessment = NoAssessment
  /\ analysis_results = <<>>
  /\ raised = ""
  /\ pc = "idle"
  /\ calls = 0

Ended(t) == threads[t].at > Len(Steps)

\* thread t takes the step: the thread that ran last goes on, another thread
\* takes over when that one has ended or by a thread switch
Preempts(t) == schedule.last \notin {0, t} /\ ~Ended(schedule.last)

AtStep(t, step) ==
  /\ ~Ended(t)
  /\ Steps[threads[t].at] = step
  /\ Preempts(t) => schedule.switches < MaxSwitches

\* thread t with the values of changes, moved to the statement at
Moved(t, at, changes) ==
  [threads EXCEPT ![t] = With([threads[t] EXCEPT !.at = at], changes)]

Unshared(t) ==
  /\ schedule' = [last |-> t,
                  switches |-> IF Preempts(t) THEN schedule.switches + 1 ELSE schedule.switches]
  /\ UNCHANGED <<calc_vars, orch_vars, calls, instance_of, est_vars>>

\* Step 3: beneish_results = self._calculate_beneish_scores(annual_data)
ParallelBeneish(t) ==
  /\ AtStep(t, "step3")
  /\ \E r \in {_calculate_beneish_scores(threads[t].annual_data,
                   objects.calculator[instance_of[t]].variables,
                   objects.calculator[instance_of[t]].score)} :
        /\ threads' = Moved(t, threads[t].at + 1, [beneish_results |-> r.results])
        /\ objects' = [objects EXCEPT !.calculator[instance_of[t]] =
                         [variables |-> r.variables, score |-> r.score]]
  /\ Unshared(t)

\* analyze_all: self.findings = [], and the return at fewer than 2 periods
ParallelReset(t) ==
  /\ AtStep(t, "reset")
  /\ objects' = [objects EXCEPT !.lists[CallList(t)] = <<>>,
                                !.findings[instance_of[t]] = CallList(t)]
  /\ threads' = Moved(t, IF Len(threads[t].annual_data) < 2 THEN ReturnStep
                         ELSE threads[t].at + 1, <<>>)
  /\ Unshared(t)

\* analyze_all: one analyze_* call, appending to the list self.findings names
ParallelRules(t) ==
  /\ AtStep(t, "rules")
  /\ \E list \in {objects.findings[instance_of[t]]} :
       \E r \in {RuleGroup(CallsMade(threads[t].at), threads[t].annual_data,
                           [exc |-> "", findings |-> objects.lists[list]])} :
          /\ objects' = [objects EXCEPT !.lists[list] = r.findings]
          /\ threads' = IF r.exc = "" THEN Moved(t, threads[t].at + 1, <<>>)
                        ELSE Moved(t, Len(Steps) + 1, [raised |-> r.exc])
  /\ Unshared(t)

\* analyze_all: return self.findings, bound to red_flags
ParallelReturn(t) ==
  /\ AtStep(t, "return")
  /\ threads' = Moved(t, threads[t].at + 1, [red_flags |-> objects.findings[instance_of[t]]])
  /\ UNCHANGED objects
  /\ Unshared(t)

\* severity_counts = self.red_flag_analyzer.get_severity_counts()
ParallelCounts(t) ==
  /\ AtStep(t, "counts")
  /\ threads' = Moved(t, threads[t].at + 1,
                      [severity_counts |->
                         get_severity_counts(objects.lists[objects.findings[instance_of[t]]])])
  /\ UNCHANGED objects
  /\ Unshared(t)

\* Step 5: trends = self._analyze_trends(annual_data, beneish_results)
ParallelTrends(t) ==
  /\ AtStep(t, "step5")
  /\ \E r \in {_analyze_trends(threads[t].annual_data, threads[t].beneish_results)} :
       threads' = IF r.exc = "" THEN Moved(t, threads[t].at + 1, [trends |-> r.trends])
                  ELSE Moved(t, Len(Steps) + 1, [raised |-> r.exc])
  /\ UNCHANGED objects
  /\ Unshared(t)

\* Step 6: assessment = self._generate_assessment(beneish_results, red_flags, trends)
ParallelAssessment(t) ==
  /\ AtStep(t, "step6")
  /\ threads' = Moved(t, threads[t].at + 1,
                      [assessment |->
                         _generate_assessment(threads[t].beneish_results,
                                              objects.lists[threads[t].red_flags],
                                              threads[t].trends)])
  /\ UNCHANGED objects
  /\ Unshared(t)

\* "Compile results": self.analysis_results = {...}
ParallelCompile(t) ==
  /\ AtStep(t, "compile")
  /\ objects' = [objects EXCEPT !.analysis_results[instance_of[t]] =
                   compile_results(threads[t].annual_data, threads[t].beneish_results,
                                   objects.lists[threads[t].red_flags], threads[t].trends,
                                   threads[t].assessment)]
  /\ threads' = Moved(t, threads[t].at + 1, <<>>)
  /\ Unshared(t)

\* return self.analysis_results
ParallelResult(t) ==
  /\ AtStep(t, "result")
  /\ threads' = Moved(t, threads[t].at + 1,
                      [returned |-> objects.analysis_results[instance_of[t]]])
  /\ UNCHANGED objects
  /\ Unshared(t)

NextParallel ==
  \E t \in Analyses :
     \/ ParallelBeneish(t)
     \/ ParallelReset(t)
     \/ ParallelRules(t)
     \/ ParallelReturn(t)
     \/ ParallelCounts(t)
     \/ ParallelTrends(t)
     \/ ParallelAssessment(t)
     \/ ParallelCompile(t)
     \/ ParallelResult(t)

SpecParallel == InitParallel /\ [][NextParallel]_vars

(***************************************************************************)
(* _estimate_sga on records whose revenues, cost of revenue and operating  *)
(* income are negative, zero, positive, None or not in the record          *)
(***************************************************************************)
MaxAmount == 2

AmountOptions == {R(k) : k \in (-MaxAmount)..MaxAmount} \cup {None, Absent}

EstimateRecords == [{"Revenues", "CostOfRevenue", "OperatingIncome"} -> AmountOptions]

InitEstimate ==
  /\ CalculatorConstructed
  /\ AnalyzerConstructed
  /\ financial_data = AllAbsent
  /\ fetched = NotFetched
  /\ annual_data = <<>>
  /\ pc = "idle"

\* self._estimate_sga(year_data)
EstimateSga ==
  /\ estimate_arg = <<>>
  /\ \E year_data \in EstimateRecords :
       /\ estimate_arg' = year_data
       /\ estimate' = _estimate_sga(year_data)
  /\ UNCHANGED <<calc_vars, orch_vars, calls, par_vars>>

NextEstimate == EstimateSga

SpecEstimate == InitEstimate /\ [][NextEstimate]_vars

(***************************************************************************)
(* Properties of the calculator                                            *)
(***************************************************************************)

\* C1: the M-Score that calculate_m_score returns is
\* -4.84 + 0.92*DSRI + 0.528*GMI + 0.404*AQI + 0.892*SGI + 0.115*DEPI
\* - 0.172*SGAI + 4.679*TATA - 0.327*LVGI over the eight indices returned with it.
C1_LinearCombination ==
  cpc = "calculated" =>
    LET v == m_result.variables
    IN /\ \A n \in VarNames : IsNum(v[n])
       /\ m_result.m_score =
            PyAdd(PyAdd(PyAdd(PyMul(Milli(920), v["DSRI"]), PyMul(Milli(528), v["GMI"])),
                        PyAdd(PyMul(Milli(404), v["AQI"]), PyMul(Milli(892), v["SGI"]))),
                  PyAdd(PyAdd(PyMul(Milli(115), v["DEPI"]), PyMul(Milli(-172), v["SGAI"])),
                        PyAdd(PyAdd(PyMul(Milli(4679), v["TATA"]),
                                    PyMul(Milli(-327), v["LVGI"])),
                              Milli(-4840))))
       /\ score = m_result.m_score
       /\ variables = v

\* a score computed from several indices away from their neutral values
C1_Witness ==
  /\ cpc = "calculated"
  /\ variables["DSRI"] # One
  /\ variables["SGI"] # One
  /\ variables["SGAI"] # One
  /\ variables["TATA"] # Zero

\* C2: a zero denominator inside an index leaves that index at exactly 1.0
\* (TATA at 0.0): zero current or prior sales, a zero prior-year ratio, a zero
\* current or prior depreciation+PPE sum, zero current or prior total assets.
C2_NeutralOnZeroDenominator ==
  cpc = "calculated" =>
    LET fd == financial_data
        v == variables
    IN /\ fd["sales_current"] = Zero =>
            v["DSRI"] = One /\ v["GMI"] = One /\ v["SGAI"] = One
       /\ fd["sales_prior"] = Zero =>
            v["DSRI"] = One /\ v["GMI"] = One /\ v["SGI"] = One /\ v["SGAI"] = One
       /\ fd["ar_prior"] = Zero => v["DSRI"] = One
       /\ fd["sga_prior"] = Zero => v["SGAI"] = One
       /\ fd["total_debt_prior"] = Zero => v["LVGI"] = One
       /\ PyAdd(fd["current_assets_prior"], fd["ppe_prior"]) = fd["total_assets_prior"] =>
            v["AQI"] = One
       /\ PyAdd(fd["depreciation_current"], fd["ppe_current"]) = Zero => v["DEPI"] = One
       /\ PyAdd(fd["depreciation_prior"], fd["ppe_prior"]) = Zero => v["DEPI"] = One
       /\ fd["total_assets_current"] = Zero \/ fd["total_assets_prior"] = Zero =>
            v["AQI"] = One /\ v["LVGI"] = One
       /\ fd["total_assets_current"] = Zero => v["TATA"] = Zero

\* C3: with every required field present and numeric, calculate_m_score returns a
\* score and all eight indices; it never ends in a division by zero.
C3_NoDivisionByZero ==
  (cpc # "constructed" /\ \A f \in Fields : IsNum(financial_data[f])) =>
    /\ cpc = "calculated"
    /\ m_result.exc = ""
    /\ IsNum(m_result.m_score)
    /\ \A n \in VarNames : IsNum(m_result.variables[n])

\* a completed call on zero prior sales, zero current assets and a negative field
C3_Witness ==
  /\ cpc = "calculated"
  /\ financial_data["sales_prior"] = Zero
  /\ financial_data["total_assets_current"] = Zero
  /\ \E f \in Fields : financial_data[f][1] < 0

\* C4: with required fields absent, calculate_m_score raises the missing-field
\* error before computing any index, and its list holds every absent field,
\* each once, and no field that is present.
C4_AllMissingListed ==
  cpc # "constructed" =>
    LET absent == {f \in Fields : financial_data[f] = Absent}
        missing == m_result.missing
    IN IF absent # {}
       THEN /\ cpc = "raised"
            /\ m_result.exc = "ValueError"
            /\ {missing[i] : i \in 1..Len(missing)} = absent
            /\ Len(missing) = Cardinality(absent)
            /\ variables = NoVariables
            /\ score = None
       ELSE m_result.exc # "ValueError" /\ missing = <<>>

\* the error raised for two absent fields
C4_Witness ==
  /\ cpc = "raised"
  /\ m_result.exc = "ValueError"
  /\ Len(m_result.missing) >= 2

\* C5: interpret_score gives exactly one tier with strict lower bounds
\* (> -1.78 VERY HIGH, > -2.22 HIGH, > -2.50 MODERATE, else LOW) and
\* is_likely_manipulator exactly when score > -2.22, i.e. tier HIGH or VERY HIGH.
C5_Tiers ==
  cpc = "interpreted" =>
    LET n == score_arg[1]
        d == score_arg[2]
        level == interpretation.risk_level
    IN /\ interpretation.score = score_arg
       /\ level \in {"VERY HIGH", "HIGH", "MODERATE", "LOW"}
       /\ level = "VERY HIGH" <=> 100 * n > -178 * d
       /\ level = "HIGH" <=> (100 * n > -222 * d /\ 100 * n <= -178 * d)
       /\ level = "MODERATE" <=> (100 * n > -250 * d /\ 100 * n <= -222 * d)
       /\ level = "LOW" <=> 100 * n <= -250 * d
       /\ interpretation.is_likely_manipulator <=> 100 * n > -222 * d
       /\ interpretation.is_likely_manipulator <=> level \in {"HIGH", "VERY HIGH"}

\* the score -2.22 itself, interpreted as MODERATE and not a manipulator
C5_Witness ==
  /\ cpc = "interpreted"
  /\ score_arg = <<-111, 50>>
  /\ interpretation.risk_level = "MODERATE"
  /\ ~interpretation.is_likely_manipulator

\* C6: analyze_variables emits exactly one flag for each index strictly above its
\* threshold (DSRI 1.031, GMI 1.014, AQI 1.039, SGI 1.134, DEPI 1.001, SGAI 1.001,
\* TATA 0.018, LVGI 1.037) and none for any other; each flag carries the
\* variable's name, value and threshold.
C6_FlagsAreBreaches ==
  cpc = "analyzed" =>
    LET claimed == [DSRI |-> 1031, GMI |-> 1014, AQI |-> 1039, SGI |-> 1134,
                    DEPI |-> 1001, SGAI |-> 1001, TATA |-> 18, LVGI |-> 1037]
        v == variables_arg
        breached == {n \in VarNames :
                       v[n] # Absent /\ 1000 * v[n][1] > claimed[n] * v[n][2]}
        flags == variable_flags
    IN /\ Len(flags) = Cardinality(breached)
       /\ \A n \in VarNames :
            Cardinality({i \in 1..Len(flags) : flags[i].variable = n})
              = IF n \in breached THEN 1 ELSE 0
       /\ \A i \in 1..Len(flags) :
            /\ flags[i].value = v[flags[i].variable]
            /\ flags[i].threshold = Norm(claimed[flags[i].variable], 1000)

\* SGAI exactly at 1.001 is not flagged while the seven others are
C6_Witness ==
  /\ cpc = "analyzed"
  /\ variables_arg["SGAI"] = <<1001, 1000>>
  /\ Len(variable_flags) = 7
  /\ \A i \in 1..7 : variable_flags[i].variable # "SGAI"

(***************************************************************************)
(* Properties of the assessment                                            *)
(***************************************************************************)
NumberOf(severity) == Cardinality({i \in DOMAIN red_flags : red_flags[i].severity = severity})

\* the contribution of the latest M-Score: 40, 25, 10 or 0
TierPoints ==
  IF beneish_results = <<>> THEN 0
  ELSE IF Gt(beneish_results[1].m_score, Milli(-1780)) THEN 40
  ELSE IF Gt(beneish_results[1].m_score, Milli(-2220)) THEN 25
  ELSE IF Gt(beneish_results[1].m_score, Milli(-2500)) THEN 10
  ELSE 0

\* C7: risk_score is the sum of every applicable contribution, each counted
\* whatever the others are: the M-Score tier, 15 for a deteriorating M-Score
\* trend, 15 per Critical and 8 per High finding, 10 for more than two Medium
\* findings, 15 for an unhealthy cash-flow ratio, and 10 for a margin that is
\* not improving and below 5%.
C7_AdditiveRiskScore ==
  pc = "done" =>
    assessment.risk_score =
        TierPoints
      + (IF trends.m_score_trend.present /\ trends.m_score_trend.is_deteriorating
         THEN 15 ELSE 0)
      + 15 * NumberOf("Critical")
      + 8 * NumberOf("High")
      + (IF NumberOf("Medium") > 2 THEN 10 ELSE 0)
      + (IF trends.cash_flow_quality.present /\ ~trends.cash_flow_quality.is_healthy
         THEN 15 ELSE 0)
      + (IF /\ trends.profit_margin.present
            /\ ~trends.profit_margin.is_improving
            /\ Lt(trends.profit_margin.latest, R(5))
         THEN 10 ELSE 0)

\* an assessment where all seven contributions stack: 40 + 15 + 15 + 8 + 10 + 15 + 10
C7_Witness ==
  /\ pc = "done"
  /\ TierPoints = 40
  /\ NumberOf("Critical") = 1 /\ NumberOf("High") = 1 /\ NumberOf("Medium") = 3
  /\ trends.m_score_trend.is_deteriorating
  /\ trends.cash_flow_quality.present /\ ~trends.cash_flow_quality.is_healthy
  /\ trends.profit_margin.present /\ ~trends.profit_margin.is_improving
  /\ trends.profit_margin.latest = R(4)
  /\ assessment.risk_score = 113

\* C8: the risk level is VERY HIGH from 60 up, HIGH from 40 to 59, MODERATE
\* from 20 to 39 and LOW below 20, so 20, 40 and 60 fall in the higher tier.
C8_RiskLevelMapping ==
  pc = "done" =>
    /\ assessment.risk_score >= 60 => assessment.risk_level = "VERY HIGH"
    /\ assessment.risk_score >= 40 /\ assessment.risk_score < 60
         => assessment.risk_level = "HIGH"
    /\ assessment.risk_score >= 20 /\ assessment.risk_score < 40
         => assessment.risk_level = "MODERATE"
    /\ assessment.risk_score < 20 => assessment.risk_level = "LOW"
    /\ analysis_results.assessment = assessment

\* an assessment whose score is exactly the boundary 40 and is rated HIGH
C8_Witness ==
  /\ pc = "done"
  /\ assessment.risk_score = 40
  /\ assessment.risk_level = "HIGH"

(***************************************************************************)
(* Properties of the Beneish loop inside analyze_company                   *)
(***************************************************************************)
\* the keys of the result that hold what the analysis computed
ResultKeys ==
  {"metadata", "annual_data", "beneish_scores", "red_flags", "trends", "assessment"}

\* the year-pairs, by the loop's index, whose computation raised
SkippedPairs == {printed[k].period : k \in DOMAIN printed}

\* C9: when the computation of a year-pair raises in the Beneish loop and the
\* analysis completes, the result holds a Beneish result for every other pair
\* and none for the failed pair, and it carries an entry recording the skip.
C9_SkippedPairRecorded ==
  pc = "done" /\ printed # <<>> =>
    /\ Len(analysis_results.beneish_scores) = (Len(annual_data) - 1) - Len(printed)
    /\ \A i \in 0..(Len(annual_data) - 2) :
         (i \in SkippedPairs) =
           ~(\E k \in DOMAIN analysis_results.beneish_scores :
               analysis_results.beneish_scores[k].period
                 = Get(annual_data[i + 1], "fiscal_year_end", None))
    /\ DOMAIN analysis_results \ ResultKeys # {}

\* C10: in a series of at least two periods, a year-pair whose Beneish
\* computation raised never makes analyze_company end in an exception.
C10_BadYearDoesNotAbort ==
  Len(annual_data) >= 2 /\ printed # <<>> => pc # "aborted"

(***************************************************************************)
(* Properties of analyze_company as a whole                                *)
(***************************************************************************)
\* C11: an analysis whose fetch supplies fewer than two annual periods, or no
\* company info or metrics at all, never completes with an assessment.
C11_TooFewPeriodsFails ==
  pc = "done" =>
    /\ fetched.company_info # "None"
    /\ fetched.financial_metrics # <<>>
    /\ analysis_results.metadata.years_analyzed >= 2

(***************************************************************************)
(* Properties of the rule engine                                           *)
(***************************************************************************)
\* the findings of a list that carry the title
Titled(list, title) == SelectSeq(list, LAMBDA f : f.title = title)

\* C12: analyze_all on fewer than 2 periods returns an empty list and raises
\* nothing, and on fewer than 3 periods the earnings smoothing rule adds no
\* finding and raises nothing.
C12_ShortSeriesEmpty ==
  calls > 0 =>
    /\ Len(annual_data) < 2 => raised = "" /\ red_flags = <<>> /\ findings = <<>>
    /\ Len(annual_data) < 3 =>
         /\ Titled(findings, "Potential Earnings Smoothing") = <<>>
         /\ analyze_earnings_quality(annual_data, [exc |-> "", findings |-> <<>>]).exc = ""

C12_Witness ==
  /\ calls > 0
  /\ Len(annual_data) = 1
  /\ annual_data[1]["NetIncome"] = None
  /\ raised = ""
  /\ red_flags = <<>>

\* C13: whatever calls came before on the same analyzer, a call of analyze_all
\* returns the list, or ends in the exception, that a freshly constructed
\* analyzer gives for the same series.
C13_CallsIndependent ==
  calls > 0 =>
    \A fresh \in {analyze_all(annual_data)} :
       /\ raised = fresh.exc
       /\ findings = fresh.findings
       /\ raised = "" => red_flags = fresh.findings

C13_Witness ==
  /\ calls >= 2
  /\ raised = ""
  /\ Len(annual_data) >= 2
  /\ red_flags # <<>>

\* C15: on the most recent period, NetIncome > 0 with OperatingCashFlow /
\* NetIncome < 0.5 gives exactly one Critical 'Earnings Quality' finding of the
\* rule, 0.5 <= ratio < 0.8 exactly one High one, and ratio >= 0.8 or
\* NetIncome <= 0 none.
C15_CashFlowBelowEarnings ==
  calls > 0 /\ raised = "" /\ Len(annual_data) >= 2 =>
    \A emitted \in {Titled(red_flags, "Operating Cash Flow Significantly Below Net Income")},
       net_income \in {annual_data[1]["NetIncome"]},
       operating_cf \in {annual_data[1]["OperatingCashFlow"]} :
       IF Gt(net_income, Zero) /\ Lt(PyDiv(operating_cf, net_income), Milli(500))
       THEN /\ Len(emitted) = 1
            /\ emitted[1].severity = "Critical"
            /\ emitted[1].category = "Earnings Quality"
       ELSE IF Gt(net_income, Zero) /\ Lt(PyDiv(operating_cf, net_income), Milli(800))
       THEN /\ Len(emitted) = 1
            /\ emitted[1].severity = "High"
            /\ emitted[1].category = "Earnings Quality"
       ELSE emitted = <<>>

C15_Witness ==
  /\ calls > 0
  /\ raised = ""
  /\ Len(annual_data) >= 2
  /\ annual_data[1]["NetIncome"] = R(100)
  /\ annual_data[1]["OperatingCashFlow"] = R(40)
  /\ \E i \in 1..Len(red_flags) :
        /\ red_flags[i].title = "Operating Cash Flow Significantly Below Net Income"
        /\ red_flags[i].severity = "Critical"

\* what each of the ten rules emits when it is run on its own, in the order
\* in which analyze_all runs them
OwnFindings(series) ==
  rising_dso(series[1], series[2]).findings
  \o ar_outpacing_revenue(series[1], series[2]).findings
  \o cf_below_earnings(series[1]).findings
  \o negative_cf_positive_earnings(series[1]).findings
  \o current_ratio_deterioration(series[1], series[2]).findings
  \o inventory_outpacing_sales(series[1], series[2]).findings
  \o (IF Len(series) >= 3 THEN earnings_smoothing(series).findings ELSE <<>>)
  \o rising_soft_assets(series[1], series[2]).findings
  \o leverage_spike(series[1], series[2]).findings
  \o margin_deterioration(series[1], series[2]).findings

\* C16: for every series of at least 2 periods each of the ten rules
\* contributes its finding exactly when its own trigger holds, whatever the
\* other rules do, so there is at most one finding per rule and at most ten.
C16_RulesIndependent ==
  calls > 0 /\ Len(annual_data) >= 2 =>
    /\ findings = OwnFindings(annual_data)
    /\ Len(findings) <= 10
    /\ \A i, j \in 1..Len(findings) : findings[i].title = findings[j].title => i = j

\* C17: the Rising DSO rule emits its 'Revenue Quality' finding exactly when
\* the percentage change of DSO = AR / Revenue * 365 is above 10, High when it
\* is above 20 and Medium otherwise: nothing at exactly 10, Medium at exactly 20.
C17_RisingDso ==
  calls > 0 /\ raised = "" /\ Len(annual_data) >= 2 =>
    \A emitted \in {Titled(red_flags, "Increasing Days Sales Outstanding (DSO)")},
       dso_current \in {PyMul(PyDiv(annual_data[1]["AccountsReceivable"],
                                    annual_data[1]["Revenues"]), R(365))},
       dso_prior \in {PyMul(PyDiv(annual_data[2]["AccountsReceivable"],
                                  annual_data[2]["Revenues"]), R(365))} :
       IF Gt(Pct(dso_current, dso_prior), R(20))
       THEN /\ Len(emitted) = 1
            /\ emitted[1].severity = "High"
            /\ emitted[1].category = "Revenue Quality"
       ELSE IF Gt(Pct(dso_current, dso_prior), R(10))
       THEN /\ Len(emitted) = 1
            /\ emitted[1].severity = "Medium"
            /\ emitted[1].category = "Revenue Quality"
       ELSE emitted = <<>>

\* gross margin in percent, in exact arithmetic
GrossMargin(year) ==
  PyMul(PyDiv(PySub(year["Revenues"], year["CostOfRevenue"]), year["Revenues"]), R(100))

\* C18: the Margin deterioration rule emits its 'Profitability' finding
\* exactly when the current gross margin is more than 5 points below the prior
\* one, High when the drop is more than 10 points and Medium otherwise.
C18_MarginDeterioration ==
  calls > 0 /\ raised = "" /\ Len(annual_data) >= 2 =>
    \A emitted \in {Titled(red_flags, "Deteriorating Gross Margins")},
       drop \in {PySub(GrossMargin(annual_data[2]), GrossMargin(annual_data[1]))} :
       IF Gt(drop, R(10))
       THEN /\ Len(emitted) = 1
            /\ emitted[1].severity = "High"
            /\ emitted[1].category = "Profitability"
       ELSE IF Gt(drop, R(5))
       THEN /\ Len(emitted) = 1
            /\ emitted[1].severity = "Medium"
            /\ emitted[1].category = "Profitability"
       ELSE emitted = <<>>

\* standard deviation over the absolute mean, of all the values
CoefficientOfVariation(values) ==
  FDiv(StdDev(values, FDiv(PySum(values), R(Len(values)))),
       PyAbs(FDiv(PySum(values), R(Len(values)))))

\* C19: with at least 3 periods the Earnings smoothing rule emits one Medium
\* 'Earnings Quality' finding exactly when, over the 5 most recent periods, the
\* coefficient of variation of operating cash flow is above 0.3 and that of
\* net income is below half of it; with fewer than 3 periods it emits nothing.
C19_EarningsSmoothing ==
  calls > 0 /\ raised = "" =>
    \A emitted \in {Titled(red_flags, "Potential Earnings Smoothing")},
       ni_cv \in {CoefficientOfVariation(Column(Take(annual_data, 5), "NetIncome"))},
       cf_cv \in {CoefficientOfVariation(Column(Take(annual_data, 5), "OperatingCashFlow"))} :
       IF /\ Len(annual_data) >= 3
          /\ PyGt(cf_cv, FLit(300)) = "T"
          /\ PyLt(ni_cv, FMul(cf_cv, FLit(500))) = "T"
       THEN /\ Len(emitted) = 1
            /\ emitted[1].severity = "Medium"
            /\ emitted[1].category = "Earnings Quality"
       ELSE emitted = <<>>

(***************************************************************************)
(* Properties of the assessment, continued                                 *)
(***************************************************************************)
\* C20: the risk_score of every assessment lies in 0..100.
C20_RiskScoreInRange ==
  pc = "done" => assessment.risk_score \in 0..100

(***************************************************************************)
(* Properties of parallel analyses                                         *)
(***************************************************************************)
\* what analyze_company has at its end
analysis_outcome(series, scores, flags, trend, verdict) ==
  [raised |-> IF flags.exc # "" THEN flags.exc ELSE trend.exc,
   beneish_results |-> scores,
   red_flags |-> flags.findings,
   severity_counts |-> get_severity_counts(flags.findings),
   assessment |-> verdict,
   returned |-> compile_results(series, scores, flags.findings, trend.trends, verdict)]

\* Steps 3 to 6 of analyze_company and its result, on a fresh analyzer that
\* nothing else uses
analyze_alone(series) ==
  CHOOSE outcome \in
    UNION {UNION {{analysis_outcome(series, scores, flags, trend, verdict) :
                     verdict \in {_generate_assessment(scores, flags.findings, trend.trends)}} :
                  flags \in {analyze_all(series)},
                  trend \in {_analyze_trends(series, scores)}} :
           scores \in {_calculate_beneish_scores(series, NoVariables, None).results}} : TRUE

Finished(t) == Ended(t) /\ threads[t].raised = ""

\* C14: when two analyses interleave, then once both have ended each one that
\* completed has exactly the findings, severity counts, Beneish results,
\* assessment and result that it gets when it runs alone.
C14_NoCrossTalk ==
  \A t \in DOMAIN threads :
    Finished(t) /\ (\A u \in DOMAIN threads : Ended(u)) =>
      \A alone \in {analyze_alone(threads[t].annual_data)} :
         /\ alone.raised = ""
         /\ objects.lists[threads[t].red_flags] = alone.red_flags
         /\ threads[t].severity_counts = alone.severity_counts
         /\ threads[t].beneish_results = alone.beneish_results
         /\ threads[t].assessment = alone.assessment
         /\ threads[t].returned = alone.returned

\* the same, of analyses that each construct their own analyzer
SeparateAnalyzers == \A t, u \in DOMAIN instance_of : instance_of[t] = instance_of[u] => t = u

NoCrossTalkWhenSeparate == SeparateAnalyzers => C14_NoCrossTalk

(***************************************************************************)
(* Properties of the orchestrator, continued                               *)
(***************************************************************************)
FindingKeys ==
  {"category", "severity", "title", "description", "metrics", "implications",
   "recommendations"}

\* C21: the red_flags of the compiled result have the length and the order of
\* the list the rule engine returned, and each entry carries the finding's
\* category, severity, title, description, metrics, implications and
\* recommendations unchanged.
C21_SerializedInOrder ==
  pc = "done" =>
    /\ red_flags = findings
    /\ Len(analysis_results.red_flags) = Len(red_flags)
    /\ \A i \in 1..Len(red_flags) :
         /\ DOMAIN analysis_results.red_flags[i] = FindingKeys
         /\ \A k \in FindingKeys : analysis_results.red_flags[i][k] = red_flags[i][k]

\* a result with several findings of different titles and severities
C21_Witness ==
  /\ pc = "done"
  /\ Len(red_flags) >= 3
  /\ red_flags[1].title # red_flags[Len(red_flags)].title
  /\ red_flags[1].severity # red_flags[2].severity
  /\ analysis_results.red_flags[2].metrics # <<>>

\* the elements of a set of numbers, smallest first
RECURSIVE Ascending(_)
Ascending(S) ==
  IF S = {} THEN <<>>
  ELSE LET least == CHOOSE x \in S : \A y \in S : x <= y
       IN <<least>> \o Ascending(S \ {least})

\* the pairs (0-based, record i against record i + 1) whose computation does
\* not raise
ComputablePairs(series) ==
  {i \in 0..(Len(series) - 2) : beneish_pair(series, i).exc = ""}

StepThreeDone == pc \in {"step4", "step5", "step6", "done"}

\* C22: _calculate_beneish_scores returns one result per pair of consecutive
\* records whose computation does not raise, N-1 of them when there are N >= 1 records and
\* none raises; the results stand in the order of the records, newest first, and each is
\* computed with record i as the current and record i + 1 as the prior year.
C22_PairsInOrder ==
  StepThreeDone =>
    \A kept \in {Ascending(ComputablePairs(annual_data))} :
      /\ Len(beneish_results) = Len(kept)
      /\ (printed = <<>> /\ annual_data # <<>> => Len(beneish_results) = Len(annual_data) - 1)
      /\ \A k \in 1..Len(kept) :
           \A current_year \in {annual_data[kept[k] + 1]}, prior_year \in {annual_data[kept[k] + 2]} :
             \A r \in {calculate_m_score(beneish_data_of(current_year, prior_year))} :
               /\ beneish_results[k].period = current_year["fiscal_year_end"]
               /\ beneish_results[k].comparison_to = prior_year["fiscal_year_end"]
               /\ beneish_results[k].m_score = r.m_score
               /\ beneish_results[k].variables = r.variables

\* three records, no pair raising, the two results with different scores
C22_Witness ==
  /\ StepThreeDone
  /\ Len(annual_data) = 3
  /\ printed = <<>>
  /\ Len(beneish_results) = 2
  /\ beneish_results[1].m_score # beneish_results[2].m_score

\* a is greater than b: the difference of the two numbers is positive
Exceeds(a, b) == PySub(a, b)[1] > 0

\* the risk score of the same results, findings and trends without an M-Score trend
ScoreWithoutMScoreTrend ==
  _generate_assessment(beneish_results, red_flags,
                       [trends EXCEPT !.m_score_trend = NoMScoreTrend]).risk_score

\* C23: the M-Score trend is there exactly when at least 2 Beneish results were
\* computed; it is deteriorating ("Worsening") exactly when the first M-Score is
\* strictly greater than the last and "Improving" otherwise, also when the two are
\* equal; the risk score holds 15 for the trend exactly when it is deteriorating,
\* and nothing for it when there are fewer than 2 results.
C23_MScoreTrend ==
  pc \in {"step6", "done"} =>
    \A trend \in {trends.m_score_trend} :
      /\ trend.present = (Len(beneish_results) >= 2)
      /\ trend.present =>
           \A latest \in {beneish_results[1].m_score},
              oldest \in {beneish_results[Len(beneish_results)].m_score} :
             /\ trend.latest = latest
             /\ trend.oldest = oldest
             /\ trend.is_deteriorating = Exceeds(latest, oldest)
             /\ trend.direction = IF Exceeds(latest, oldest) THEN "Worsening" ELSE "Improving"
      /\ ~trend.present => ~trend.is_deteriorating /\ trend.direction = ""
      /\ pc = "done" =>
           assessment.risk_score =
             ScoreWithoutMScoreTrend + (IF trend.is_deteriorating THEN 15 ELSE 0)

\* a completed analysis whose latest M-Score is above the oldest
C23_Witness ==
  /\ pc = "done"
  /\ Len(beneish_results) = 2
  /\ trends.m_score_trend.direction = "Worsening"
  /\ assessment.risk_score = ScoreWithoutMScoreTrend + 15

\* the contribution of an M-Score: 40, 25, 10 or 0
TierOf(m_score) ==
  IF Gt(m_score, Milli(-1780)) THEN 40
  ELSE IF Gt(m_score, Milli(-2220)) THEN 25
  ELSE IF Gt(m_score, Milli(-2500)) THEN 10
  ELSE 0

\* what the Beneish results add to the risk score by their latest M-Score
TierContribution ==
  assessment.risk_score
    - _generate_assessment(<<>>, red_flags,
                           [trends EXCEPT !.m_score_trend = NoMScoreTrend]).risk_score
    - (IF trends.m_score_trend.is_deteriorating THEN 15 ELSE 0)

\* C24: the M-Score tier contribution to the risk score is that of the M-Score
\* of the most recent year-pair (record 0 as current, record 1 as prior), also
\* when some year-pairs were skipped.
C24_TierFromLatestPair ==
  pc = "done" /\ Len(annual_data) >= 2 =>
    \A latest \in {beneish_pair(annual_data, 0)} :
      /\ latest.exc = "" => TierContribution = TierOf(latest.result.m_score)
      /\ latest.exc # "" => TierContribution = 0

\* the same, of the analyses in which no year-pair was skipped
TierFromLatestPairWhenComplete == printed = <<>> => C24_TierFromLatestPair

\* the records and fields of a series whose key is not in the record
AbsentCells(series) ==
  {<<i, f>> \in (1..Len(series)) \X AnnualFields : series[i][f] = Absent}

\* the series with the key of one cell present and equal to 0
WithZero(series, i, f) == [series EXCEPT ![i][f] = Zero]

\* the analysis of the series gives what the finished analysis has
SameAnalysis(series) ==
  \A alone \in {analyze_alone(series)} :
    /\ alone.raised = ""
    /\ beneish_results = alone.beneish_results
    /\ red_flags = alone.red_flags
    /\ trends = _analyze_trends(series, alone.beneish_results).trends
    /\ assessment = alone.assessment

\* C25: a record that lacks the key of a standardized field produces the same
\* Beneish results, findings, trends and assessment as the same record with
\* that key present and equal to 0.
C25_AbsentAsZero ==
  pc = "done" =>
    \A cell \in AbsentCells(annual_data) :
      SameAnalysis(WithZero(annual_data, cell[1], cell[2]))

\* the same, of every field but the depreciation
AbsentAsZeroButDepreciation ==
  pc = "done" =>
    \A cell \in AbsentCells(annual_data) :
      cell[2] # "DepreciationAndAmortization" =>
        SameAnalysis(WithZero(annual_data, cell[1], cell[2]))

(***************************************************************************)
(* Properties of the SG&A estimate                                         *)
(***************************************************************************)
\* the call returned a value
Estimated == estimate_arg # <<>> /\ ~IsRaise(estimate)

\* "if revenues > 0 and cogs >= 0" of the record
HasRevenuesAndCost(year_data) ==
  PyAnd(PyGt(Get(year_data, "Revenues", Zero), Zero),
        PyGe(Get(year_data, "CostOfRevenue", Zero), Zero)) = "T"

\* "return revenues * 0.20" of the record
FallbackOf(year_data) == PyMul(Get(year_data, "Revenues", Zero), Norm(20, 100))

\* C26: the value _estimate_sga returns is never negative, and it is the 20%
\* of revenue fallback exactly when the record does not have revenues > 0 and
\* cost of revenue >= 0.
C26_SgaNotNegative ==
  Estimated =>
    /\ ~Lt(estimate, Zero)
    /\ ~HasRevenuesAndCost(estimate_arg) => estimate = FallbackOf(estimate_arg)
    /\ HasRevenuesAndCost(estimate_arg) =>
         estimate = PyMax(PySub(PySub(Get(estimate_arg, "Revenues", Zero),
                                      Get(estimate_arg, "CostOfRevenue", Zero)),
                                Get(estimate_arg, "OperatingIncome", Zero)), Zero)

\* the same, of the records whose revenues are not negative
SgaNotNegativeWithoutNegativeRevenues ==
  Estimated /\ ~Lt(Get(estimate_arg, "Revenues", Zero), Zero) => C26_SgaNotNegative

NegativeCashFlowTitle == "Negative Operating Cash Flow Despite Positive Earnings"
CashFlowBelowEarningsTitle == "Operating Cash Flow Significantly Below Net Income"

\* the Critical findings of the category in a list
CriticalEarningsQuality(list) ==
  SelectSeq(list, LAMBDA f : f.category = "Earnings Quality" /\ f.severity = "Critical")

\* what the Critical findings add to the risk score
CriticalContribution ==
  assessment.risk_score
    - _generate_assessment(beneish_results,
                           SelectSeq(red_flags, LAMBDA f : f.severity # "Critical"),
                           trends).risk_score

\* C27: whenever the finding of a negative operating cash flow despite positive
\* earnings is made (OperatingCashFlow < 0 and NetIncome > 0 in the most recent
\* period of a series of at least 2 periods, the series the rule engine looks
\* at), the finding of cash flow below earnings is made with severity
\* Critical too, the result has two Critical findings of the category Earnings
\* Quality, and the Critical findings add at least 30 to the risk score.
C27_NegativeCashFlowTwoCriticals ==
  pc = "done" =>
    /\ (Titled(red_flags, NegativeCashFlowTitle) # <<>>) =
         (/\ Len(annual_data) >= 2
          /\ Lt(Get(annual_data[1], "OperatingCashFlow", Zero), Zero)
          /\ Gt(Get(annual_data[1], "NetIncome", Zero), Zero))
    /\ Titled(red_flags, NegativeCashFlowTitle) # <<>> =>
         /\ Len(Titled(red_flags, CashFlowBelowEarningsTitle)) = 1
         /\ Titled(red_flags, CashFlowBelowEarningsTitle)[1].severity = "Critical"
         /\ Len(CriticalEarningsQuality(red_flags)) = 2
         /\ Len(CriticalEarningsQuality(analysis_results.red_flags)) = 2
         /\ CriticalContribution = 15 * NumberOf("Critical")
         /\ CriticalContribution >= 30

C27_Witness ==
  /\ pc = "done"
  /\ Titled(red_flags, NegativeCashFlowTitle) # <<>>
  /\ Len(CriticalEarningsQuality(analysis_results.red_flags)) = 2
  /\ assessment.critical_red_flags >= 2

\* the contribution that goes with a risk level of interpret_score
PointsOfLevel(risk_level) ==
  CASE risk_level = "VERY HIGH" -> 40
    [] risk_level = "HIGH" -> 25
    [] risk_level = "MODERATE" -> 10
    [] risk_level = "LOW" -> 0

\* C28: the M-Score tier contribution to the risk score agrees with the
\* calculator's interpretation of the same score: 40 exactly when its
\* risk_level is VERY HIGH, 25 when HIGH, 10 when MODERATE, 0 when LOW.
C28_TierAgreesWithInterpretation ==
  pc = "done" /\ beneish_results # <<>> =>
    /\ beneish_results[1].interpretation = interpret_score(beneish_results[1].m_score)
    /\ TierContribution = PointsOfLevel(beneish_results[1].interpretation.risk_level)
    /\ \A level \in {"VERY HIGH", "HIGH", "MODERATE", "LOW"} :
         (TierContribution = PointsOfLevel(level))
           = (beneish_results[1].interpretation.risk_level = level)

C28_Witness ==
  /\ pc = "done"
  /\ beneish_results # <<>>
  /\ beneish_results[1].m_score = Milli(-2220)
  /\ beneish_results[1].interpretation.risk_level = "MODERATE"
  /\ TierContribution = 10

\* seven multiplicative indices at 1.0 and TATA at 0.0
NeutralVariables == [v \in VarNames |-> IF v = "TATA" THEN Zero ELSE One]

\* an annual record whose fields are all zero
ZeroYear(i) == [f \in AnnualFields \cup {"fiscal_year_end"} |->
                  IF f = "fiscal_year_end" THEN R(2025 - i) ELSE Zero]

\* C29: when all eight indices take their neutral values (1.0, and 0.0 for
\* TATA), as for a year-pair whose records are all zero, the M-Score is -2.48,
\* its interpretation is MODERATE with is_likely_manipulator false,
\* analyze_variables emits no flag, and as the latest score it contributes 10
\* to the risk score.
C29_NeutralScore ==
  /\ pc = "done" =>
       \A k \in DOMAIN beneish_results :
         beneish_results[k].variables = NeutralVariables =>
           /\ beneish_results[k].m_score = Milli(-2480)
           /\ beneish_results[k].interpretation.risk_level = "MODERATE"
           /\ ~beneish_results[k].interpretation.is_likely_manipulator
           /\ beneish_results[k].variable_flags = <<>>
           /\ k = 1 => TierContribution = 10
  /\ \A pair \in {beneish_pair(<<ZeroYear(1), ZeroYear(2)>>, 0)} :
       /\ pair.exc = ""
       /\ pair.result.variables = NeutralVariables
       /\ pair.result.m_score = Milli(-2480)
       /\ pair.result.interpretation.risk_level = "MODERATE"
       /\ ~pair.result.interpretation.is_likely_manipulator
       /\ pair.result.variable_flags = <<>>
       /\ TierOf(pair.result.m_score) = 10

C29_Witness ==
  /\ pc = "done"
  /\ beneish_results # <<>>
  /\ beneish_results[1].variables = NeutralVariables
  /\ beneish_results[1].m_score = Milli(-2480)
  /\ assessment.risk_score = 10

\* what the cash flow quality adds to the risk score
CashFlowContribution ==
  assessment.risk_score
    - _generate_assessment(beneish_results, red_flags,
        [trends EXCEPT !.cash_flow_quality =
           [present |-> TRUE, cf_to_ni_ratio |-> One, is_healthy |-> TRUE]]).risk_score

\* C30: for a series of at least 2 periods, whenever the rule engine makes the
\* finding of cash flow below earnings, the trends mark the cash flow quality
\* as not healthy and the risk score receives the 15 of an unhealthy cash
\* flow; and whenever NetIncome of the most recent period is not positive,
\* neither the finding nor the 15 occurs.
C30_FindingMeansUnhealthy ==
  pc = "done" /\ Len(annual_data) >= 2 =>
    /\ Titled(red_flags, CashFlowBelowEarningsTitle) # <<>> =>
         /\ trends.cash_flow_quality.present
         /\ ~trends.cash_flow_quality.is_healthy
         /\ CashFlowContribution = 15
    /\ ~Gt(Get(annual_data[1], "NetIncome", Zero), Zero) =>
         /\ Titled(red_flags, CashFlowBelowEarningsTitle) = <<>>
         /\ ~trends.cash_flow_quality.present
         /\ CashFlowContribution = 0

\* a finished analysis with the finding and the 15
C30_Witness ==
  /\ pc = "done"
  /\ Len(annual_data) >= 2
  /\ Titled(red_flags, CashFlowBelowEarningsTitle) # <<>>
  /\ ~trends.cash_flow_quality.is_healthy
  /\ CashFlowContribution = 15

\* a finished analysis whose latest NetIncome is not positive
LatestIncomeNotPositive ==
  /\ pc = "done"
  /\ Len(annual_data) >= 2
  /\ ~Gt(Get(annual_data[1], "NetIncome", Zero), Zero)

====
